---- MODULE Spec2Model ----
(***************************************************************************)
(* A model of the family-prediction-game spreadsheet parser                *)
(* (src/predictions/parser/xlsx_parser.py).                                *)
(*                                                                         *)
(* Conventions                                                             *)
(*  - A Python str is a sequence of one-character strings.                 *)
(*  - A Python number is an integer count of units of 1/Scale (1.0 is      *)
(*    Scale, 0.5 is Scale \div 2); Scale is fine enough to hold every       *)
(*    numeric literal of the inputs exactly.                               *)
(*  - A Python value (a spreadsheet cell as pandas hands it over) is a     *)
(*    record [t, n, s]: the type tag, the number and the string.           *)
(*  - A function that can raise returns [ok, val, err].                    *)
(***************************************************************************)
EXTENDS Integers, Sequences, FiniteSets, TLC

VARIABLES
    pc,                 \* control location of the operation under way
    arg,                \* the argument of the operation
    ret,                \* what the operation returned or raised
    locals,             \* parse_xlsx_file: its local variables so far
    xlsx_files,         \* parse_all_years: the sorted directory listing
    k,                  \* parse_all_years: number of files already processed
    all_statements,     \* parse_all_years: aggregated statements
    all_predictions,    \* parse_all_years: aggregated predictions
    all_outcomes,       \* parse_all_years: aggregated outcomes
    statements_by_year  \* parse_all_years: year -> set of statement ids seen

vars == <<pc, arg, ret, locals, xlsx_files, k, all_statements, all_predictions,
          all_outcomes, statements_by_year>>

----------------------------------------------------------------------------
(* Bounds of the model.                                                     *)

\* Numeric inputs range over -MaxNum..MaxNum tenths.
MaxNum == 12
\* String inputs of the value sanitizers have at most MaxStrLen characters.
MaxStrLen == 3

\* One is Scale units: a literal of MaxStrLen characters has fewer than
\* MaxStrLen decimals.
Scale == 10 ^ MaxStrLen
Tenth == Scale \div 10

----------------------------------------------------------------------------
(* Python strings.                                                          *)

Whitespace == {" ", "\t", "\n"}

Min(S) == CHOOSE x \in S : \A y \in S : x <= y
Max(S) == CHOOSE x \in S : \A y \in S : x >= y

\* str.strip(): drop the leading and trailing whitespace.
Strip(s) ==
    LET keep == {i \in 1..Len(s) : s[i] \notin Whitespace}
    IN  IF keep = {} THEN <<>> ELSE SubSeq(s, Min(keep), Max(keep))

UpperToLower ==
    [c \in {"A","B","C","D","E","F","G","H","I","J","K","L","M","N","O","P",
            "Q","R","S","T","U","V","W","X","Y","Z","Ë","Ä"} |->
        CASE c = "A" -> "a" [] c = "B" -> "b" [] c = "C" -> "c"
          [] c = "D" -> "d" [] c = "E" -> "e" [] c = "F" -> "f"
          [] c = "G" -> "g" [] c = "H" -> "h" [] c = "I" -> "i"
          [] c = "J" -> "j" [] c = "K" -> "k" [] c = "L" -> "l"
          [] c = "M" -> "m" [] c = "N" -> "n" [] c = "O" -> "o"
          [] c = "P" -> "p" [] c = "Q" -> "q" [] c = "R" -> "r"
          [] c = "S" -> "s" [] c = "T" -> "t" [] c = "U" -> "u"
          [] c = "V" -> "v" [] c = "W" -> "w" [] c = "X" -> "x"
          [] c = "Y" -> "y" [] c = "Z" -> "z" [] c = "Ë" -> "ë"
          [] c = "Ä" -> "ä"]

LowerChar(c) == IF c \in DOMAIN UpperToLower THEN UpperToLower[c] ELSE c

\* str.lower()
Lower(s) == [i \in 1..Len(s) |-> LowerChar(s[i])]

Digits == {"0","1","2","3","4","5","6","7","8","9"}

DigitVal(c) ==
    CASE c = "0" -> 0 [] c = "1" -> 1 [] c = "2" -> 2 [] c = "3" -> 3
      [] c = "4" -> 4 [] c = "5" -> 5 [] c = "6" -> 6 [] c = "7" -> 7
      [] c = "8" -> 8 [] c = "9" -> 9

DigitChar(d) ==
    CASE d = 0 -> "0" [] d = 1 -> "1" [] d = 2 -> "2" [] d = 3 -> "3"
      [] d = 4 -> "4" [] d = 5 -> "5" [] d = 6 -> "6" [] d = 7 -> "7"
      [] d = 8 -> "8" [] d = 9 -> "9"

RECURSIVE DigitsToNat(_)
DigitsToNat(s) ==
    IF s = <<>> THEN 0
    ELSE 10 * DigitsToNat(SubSeq(s, 1, Len(s) - 1)) + DigitVal(s[Len(s)])

RECURSIVE NatToStr(_)
NatToStr(n) ==
    IF n < 10 THEN <<DigitChar(n)>>
    ELSE NatToStr(n \div 10) \o <<DigitChar(n % 10)>>

\* str(i) of a Python int i
IntToStr(i) == IF i < 0 THEN <<"-">> \o NatToStr(-i) ELSE NatToStr(i)

AllDigits(s) == \A i \in 1..Len(s) : s[i] \in Digits

----------------------------------------------------------------------------
(* Python values.                                                           *)

NoStr == <<>>

PyNone     == [t |-> "NoneType", n |-> 0, s |-> NoStr]
PyNaN      == [t |-> "float",    n |-> 0, s |-> <<"n","a","n">>]
PyInt(i)   == [t |-> "int",      n |-> Scale * i, s |-> NoStr]
PyFloat(x) == [t |-> "float",    n |-> x, s |-> NoStr]
PyBool(b)  == [t |-> "bool",     n |-> IF b THEN Scale ELSE 0, s |-> NoStr]
PyStr(s)   == [t |-> "str",      n |-> 0, s |-> s]
\* a value of any other type (a datetime cell, say)
PyOther    == [t |-> "datetime", n |-> 0, s |-> NoStr]

\* value != value
IsNaN(v) == v.t = "float" /\ v.s = <<"n","a","n">>

\* isinstance(value, (int, float)): bool is a subclass of int
IsIntOrFloat(v) == v.t \in {"int", "float", "bool"}

\* a return value; an exception of some kind, info holding what its message
\* names
Ok(v)          == [ok |-> TRUE,  val |-> v, err |-> "none", info |-> <<>>]
ErrAt(e, info) == [ok |-> FALSE, val |-> 0, err |-> e, info |-> info]
Err(e)         == ErrAt(e, <<>>)

----------------------------------------------------------------------------
(* float(value), as validate_probability and sanitize_probability call it.  *)

FNum(x)  == [k |-> "num", n |-> x]
FNaN     == [k |-> "nan", n |-> 0]
\* +inf or -inf: n is the sign
FInf(sg) == [k |-> "inf", n |-> sg]
\* TypeError or ValueError
FError   == [k |-> "error", n |-> 0]

\* float(s) of a str: surrounding whitespace is ignored, then an optional
\* sign, then "nan", "inf", "infinity" in any case or a decimal literal
\* (digits, at most one point, one digit at least).  Exponents and digit
\* separators are outside the input alphabet.
ParseFloat(s) ==
    LET t      == Strip(s)
        signed == t # <<>> /\ t[1] \in {"+", "-"}
        sg     == IF signed /\ t[1] = "-" THEN -1 ELSE 1
        body   == IF signed THEN Tail(t) ELSE t
        dots   == {i \in 1..Len(body) : body[i] = "."}
        dot    == IF dots = {} THEN Len(body) + 1 ELSE Min(dots)
        ip     == SubSeq(body, 1, dot - 1)
        fp     == SubSeq(body, dot + 1, Len(body))
    IN  IF Lower(body) = <<"n","a","n">> THEN FNaN
        ELSE IF Lower(body) \in {<<"i","n","f">>,
                                 <<"i","n","f","i","n","i","t","y">>}
        THEN FInf(sg)
        ELSE IF /\ Cardinality(dots) <= 1
                /\ AllDigits(ip) /\ AllDigits(fp)
                /\ Len(ip) + Len(fp) >= 1
        THEN FNum(sg * (DigitsToNat(ip) * Scale
                        + (DigitsToNat(fp) * Scale) \div (10 ^ Len(fp))))
        ELSE FError

ToFloat(value) ==
    IF value.t = "str" THEN ParseFloat(value.s)
    ELSE IF IsNaN(value) THEN FNaN
    ELSE IF IsIntOrFloat(value) THEN FNum(value.n)
    ELSE FError

\* 0.0 <= prob <= 1.0
InUnitRange(f) == f.k = "num" /\ 0 <= f.n /\ f.n <= Scale

----------------------------------------------------------------------------
(* Value sanitizers.                                                        *)

\* validate_probability with the upper bound excluded
validate_probability_open(value) ==
    IF value.t = "NoneType" THEN Err("InvalidProbability")
    ELSE LET prob == ToFloat(value)
         IN  IF prob.k # "num" \/ ~(0 <= prob.n /\ prob.n < Scale)
             THEN Err("InvalidProbability")
             ELSE Ok(prob.n)

validate_probability(value) ==
    IF value.t = "NoneType" THEN Err("InvalidProbability")
    ELSE LET prob == ToFloat(value)
         IN  IF prob.k = "error" THEN Err("InvalidProbability")
             ELSE IF prob.k = "nan" THEN Err("InvalidProbability")
             ELSE IF ~InUnitRange(prob) THEN Err("InvalidProbability")
             ELSE Ok(prob.n)

Half == Scale \div 2

\* sanitize_probability without the range check
sanitize_probability_norange(value) ==
    IF value.t = "NoneType" THEN Half
    ELSE LET prob == ToFloat(value)
         IN  IF prob.k # "num" THEN Half ELSE prob.n

\* sanitize_probability with 0.0 for the invalid values
sanitize_probability_zero(value) ==
    IF value.t = "NoneType" THEN 0
    ELSE LET prob == ToFloat(value)
         IN  IF prob.k # "num" \/ ~InUnitRange(prob) THEN 0 ELSE prob.n

sanitize_probability(value) ==
    IF value.t = "NoneType" THEN Half
    ELSE LET prob == ToFloat(value)
         IN  IF prob.k = "error" THEN Half
             ELSE IF prob.k = "nan" THEN Half
             ELSE IF ~InUnitRange(prob) THEN Half
             ELSE prob.n

\* Optional[bool]: True, False, None
OutTrue       == "true"
OutFalse      == "false"
OutUnresolved == "unresolved"

\* parse_outcome comparing the string without stripping it
parse_outcome_nostrip(value) ==
    IF value.t = "NoneType" THEN Ok(OutUnresolved)
    ELSE IF value.t = "str" THEN
        IF value.s = <<>> \/ value.s = <<"-">> THEN Ok(OutUnresolved)
        ELSE IF value.s \in {<<"0">>, <<"0",".","0">>} THEN Ok(OutFalse)
        ELSE IF value.s \in {<<"1">>, <<"1",".","0">>} THEN Ok(OutTrue)
        ELSE Err("UnparsableOutcome")
    ELSE IF IsIntOrFloat(value) THEN
        IF IsNaN(value) THEN Ok(OutUnresolved)
        ELSE IF value.n = 0 THEN Ok(OutFalse)
        ELSE IF value.n = Scale THEN Ok(OutTrue)
        ELSE Err("UnparsableOutcome")
    ELSE Err("UnparsableOutcome")

parse_outcome(value) ==
    IF value.t = "NoneType" THEN Ok(OutUnresolved)
    ELSE IF value.t = "str" THEN
        LET value_stripped == Strip(value.s)
        IN  IF value_stripped = <<>> \/ value_stripped = <<"-">>
            THEN Ok(OutUnresolved)
            ELSE IF value_stripped \in {<<"0">>, <<"0",".","0">>}
            THEN Ok(OutFalse)
            ELSE IF value_stripped \in {<<"1">>, <<"1",".","0">>}
            THEN Ok(OutTrue)
            ELSE Err("UnparsableOutcome")
    ELSE IF IsIntOrFloat(value) THEN
        IF IsNaN(value) THEN Ok(OutUnresolved)
        ELSE IF value.n = 0 THEN Ok(OutFalse)
        ELSE IF value.n = Scale THEN Ok(OutTrue)
        ELSE Err("UnparsableOutcome")
    ELSE Err("UnparsableOutcome")

----------------------------------------------------------------------------
(* Name normalizer.                                                         *)

name_mapping ==
    [key \in {<<"b","o","o","f">>, <<"b","r","u","c","e">>,
              <<"g","a","e","l">>, <<"g","a","ë","l">>, <<"g","ä","e","l">>,
              <<"c","h","r","i","s">>,
              <<"c","h","r","i","s","t","i","n","e">>} |->
        CASE key \in {<<"b","o","o","f">>, <<"b","r","u","c","e">>}
                -> <<"B","r","u","c","e">>
          [] key \in {<<"g","a","e","l">>, <<"g","a","ë","l">>,
                      <<"g","ä","e","l">>}
                -> <<"G","a","e","l">>
          [] key \in {<<"c","h","r","i","s">>,
                      <<"c","h","r","i","s","t","i","n","e">>}
                -> <<"C","h","r","i","s","t","i","n","e">>]

\* normalize_participant_name looking the unstripped name up
normalize_participant_name_rawkey(name) ==
    IF Lower(name) \in DOMAIN name_mapping
    THEN name_mapping[Lower(name)]
    ELSE Strip(name)

\* normalize_participant_name looking the name up in the case it has
normalize_participant_name_cased(name) ==
    LET normalized == Strip(name)
    IN  IF normalized \in DOMAIN name_mapping
        THEN name_mapping[normalized]
        ELSE normalized

normalize_participant_name(name) ==
    LET normalized == Strip(name)
    IN  IF Lower(normalized) \in DOMAIN name_mapping
        THEN name_mapping[Lower(normalized)]
        ELSE normalized

----------------------------------------------------------------------------
(* extract_first_proposer.                                                  *)

\* Where the first separator of re.split starts in s and where it ends:
\* a comma or an ampersand, or "and" in any case between whitespace, each
\* with the whitespace around it.  <<0, 0>> if s holds none.
FirstSeparator(s) ==
    LET isAnd(j) == /\ j > 1 /\ j + 3 <= Len(s)
                    /\ s[j - 1] \in Whitespace
                    /\ Lower(SubSeq(s, j, j + 2)) = <<"a","n","d">>
                    /\ s[j + 3] \in Whitespace
        cores == {j \in 1..Len(s) : s[j] \in {",", "&"} \/ isAnd(j)}
        j     == Min(cores)
        last  == IF s[j] \in {",", "&"} THEN j ELSE j + 2
        after == {i \in (last + 1)..Len(s) : s[i] \notin Whitespace}
    IN  IF cores = {} THEN <<0, 0>>
        ELSE <<j, IF after = {} THEN Len(s) + 1 ELSE Min(after)>>

\* the first part of re.split(...) that is not empty once stripped, <<>> if
\* there is none
RECURSIVE FirstPart(_)
FirstPart(s) ==
    LET sep == FirstSeparator(s)
    IN  IF sep[1] = 0 THEN Strip(s)
        ELSE IF Strip(SubSeq(s, 1, sep[1] - 1)) # <<>>
        THEN Strip(SubSeq(s, 1, sep[1] - 1))
        ELSE FirstPart(SubSeq(s, sep[2], Len(s)))

extract_first_proposer(name) ==
    IF FirstPart(name) # <<>> THEN FirstPart(name) ELSE Strip(name)

----------------------------------------------------------------------------
(* Workbooks.  A file is [stem, sheets]; a sheet is [title, columns, rows], *)
(* its rows functions from the sheet's columns to Python values; an empty   *)
(* cell reads as NaN.                                                       *)

S_Main       == <<"M","a","i","n">>
S_Input      == <<"I","n","p","u","t">>
S_Statements == <<"S","t","a","t","e","m","e","n","t","s">>
S_Summary    == <<"S","u","m","m","a","r","y">>
S_Scores     == <<"S","c","o","r","e","s">>

\* wb.sheetnames
sheetnames(file) == [i \in 1..Len(file.sheets) |-> file.sheets[i].title]

InSeq(x, seq) == \E i \in 1..Len(seq) : seq[i] = x

\* a numeric cell holding a whole number, which the reader returns as int
WholeNumber(v) == v.t \in {"int", "float"} /\ ~IsNaN(v) /\ v.n % Scale = 0

\* The dtype pandas gives a column: int64 when every cell is a whole
\* number, float64 when every cell is a number or empty, object otherwise.
ColumnDtype(rows, col) ==
    IF \A i \in 1..Len(rows) : WholeNumber(rows[i][col]) THEN "int64"
    ELSE IF \A i \in 1..Len(rows) : rows[i][col].t \in {"int", "float"}
    THEN "float64"
    ELSE "object"

\* a cell as df.iterrows() hands it over: a whole number is an int unless
\* its column is float64
CellOf(dtype, v) ==
    IF WholeNumber(v) /\ dtype # "float64" THEN [v EXCEPT !.t = "int"] ELSE v

\* numpy.int64, which is no subclass of int
NpInt64(v) == [v EXCEPT !.t = "int64"]

\* row.iloc[0][col] of a selection of rows: a numpy scalar of the dtype of
\* the column
iloc(df, i, col) ==
    IF df.dtypes[col] = "int64" THEN NpInt64(df.rows[i][col])
    ELSE df.rows[i][col]

\* pd.read_excel(filepath, sheet_name=...), the sheet being there
read_excel(file, sheet_name) ==
    LET sheet == file.sheets[Min({i \in 1..Len(file.sheets) :
                                    file.sheets[i].title = sheet_name})]
        dtypes == [c \in sheet.columns |-> ColumnDtype(sheet.rows, c)]
    IN  [title   |-> sheet.title,
         columns |-> sheet.columns,
         dtypes  |-> dtypes,
         rows    |-> [i \in 1..Len(sheet.rows) |->
                        [c \in sheet.columns |->
                            CellOf(dtypes[c], sheet.rows[i][c])]]]

\* pd.isna of a cell
IsNA(v) == IsNaN(v) \/ v.t = "NoneType"

\* df.dropna(subset=[col]).iterrows()
dropna(df, col) ==
    LET keep(row) == ~IsNA(row[col])
    IN  SelectSeq(df.rows, keep)

\* equality of two cells that are not NA, as pandas compares them: numbers
\* by value (1 == 1.0 == True), strings by content
CellEq(a, b) ==
    IF a.t = "str" \/ b.t = "str"
    THEN a.t = "str" /\ b.t = "str" /\ a.s = b.s
    ELSE IsIntOrFloat(a) /\ IsIntOrFloat(b) /\ a.n = b.n

\* df[col].duplicated().any(), on the rows dropna kept
duplicated_any(rows, col) ==
    \E i, j \in 1..Len(rows) : i < j /\ CellEq(rows[i][col], rows[j][col])

\* int(s) of a str: whitespace around, an optional sign, digits
ParseInt(s) ==
    LET t      == Strip(s)
        signed == t # <<>> /\ t[1] \in {"+", "-"}
        body   == IF signed THEN Tail(t) ELSE t
    IN  IF body # <<>> /\ AllDigits(body)
        THEN FNum((IF signed /\ t[1] = "-" THEN -1 ELSE 1) * DigitsToNat(body))
        ELSE FError

\* int(value): a float is truncated towards zero
ToInt(value) ==
    IF value.t = "str" THEN ParseInt(value.s)
    ELSE IF IsIntOrFloat(value) /\ ~IsNaN(value)
    THEN FNum(IF value.n >= 0 THEN value.n \div Scale
              ELSE -((-value.n) \div Scale))
    ELSE FError

\* the decimals of repr(x) of a float: the fraction without trailing zeros
RECURSIVE FractionDigits(_, _)
FractionDigits(frac, unit) ==
    IF frac = 0 THEN <<>>
    ELSE <<DigitChar((frac * 10) \div unit)>>
            \o FractionDigits((frac * 10) % unit, unit)

\* str(value)
ToStr(value) ==
    CASE value.t = "str"      -> value.s
      [] value.t = "NoneType" -> <<"N","o","n","e">>
      [] value.t = "bool"     -> IF value.n = 0 THEN <<"F","a","l","s","e">>
                                 ELSE <<"T","r","u","e">>
      [] value.t = "int"      -> IntToStr(ToInt(value).n)
      [] IsNaN(value)         -> <<"n","a","n">>
      [] value.t = "float" /\ ~IsNaN(value) ->
            LET a    == IF value.n < 0 THEN -value.n ELSE value.n
                frac == FractionDigits(a % Scale, Scale)
            IN  (IF value.n < 0 THEN <<"-">> ELSE <<>>)
                    \o NatToStr(a \div Scale) \o <<".">>
                    \o (IF frac = <<>> THEN <<"0">> ELSE frac)
      [] OTHER                -> <<"?">>

----------------------------------------------------------------------------
(* Results of loops that a raise cuts short.                                *)

\* the results of the iterations of a loop, in order: the first exception
\* if one is raised, else the values
Collect(results) ==
    LET bad == {i \in 1..Len(results) : ~results[i].ok}
    IN  IF bad # {} THEN results[Min(bad)]
        ELSE Ok([i \in 1..Len(results) |-> results[i].val])

RECURSIVE Concat(_)
Concat(seqs) == IF seqs = <<>> THEN <<>> ELSE Head(seqs) \o Concat(Tail(seqs))

\* the same for a loop that keeps the list of its last iteration only
CollectLast(results) ==
    IF Collect(results).ok
    THEN Ok(IF results = <<>> THEN <<>> ELSE results[Len(results)].val)
    ELSE Collect(results)

\* the same for a loop whose iterations each extend a list
CollectAll(results) ==
    IF Collect(results).ok THEN Ok(Concat(Collect(results).val))
    ELSE Collect(results)

----------------------------------------------------------------------------
(* Statement extractors.                                                    *)

\* f"{year}-{statement_id}"
GlobalId(year, statement_id) == IntToStr(year) \o <<"-">> \o statement_id

\* the loop over df.iterrows() of both statement extractors
StatementsOfRows(rows, year, id_col, proposer_col) ==
    LET one(row) ==
            IF ToInt(row[id_col]).k = "error" THEN Err("ValueError")
            ELSE Ok([id       |-> GlobalId(year, IntToStr(ToInt(row[id_col]).n)),
                     year     |-> year,
                     text     |-> Strip(ToStr(row["Prediction"])),
                     category |-> Strip(ToStr(row["Category"])),
                     proposer |-> normalize_participant_name(
                                    extract_first_proposer(
                                        ToStr(row[proposer_col])))])
    IN  Collect([i \in 1..Len(rows) |-> one(rows[i])])

\* from the check of the required columns on, which both extractors share
StatementsOfSheet(df, year, id_col, proposer_col) ==
    IF ~({id_col, proposer_col, "Prediction", "Category"} \subseteq df.columns)
    THEN Err("MissingColumns")
    ELSE IF duplicated_any(dropna(df, id_col), id_col)
    THEN Err("DuplicateID")
    ELSE StatementsOfRows(dropna(df, id_col), year, id_col, proposer_col)

extract_statements_2022_2024(file, year) ==
    IF InSeq(S_Main, sheetnames(file))
    THEN StatementsOfSheet(read_excel(file, S_Main), year, "ID", "Proposer")
    ELSE IF InSeq(S_Input, sheetnames(file))
    THEN StatementsOfSheet(read_excel(file, S_Input), year, "ID", "Proposer")
    ELSE Err("SheetNotFound")

extract_statements_2025(file, year) ==
    IF ~InSeq(S_Statements, sheetnames(file)) THEN Err("SheetNotFound")
    ELSE LET df == read_excel(file, S_Statements)
         IN  IF "Name" \in df.columns
             THEN StatementsOfSheet(df, year, "Number", "Name")
             ELSE IF "Author" \in df.columns
             THEN StatementsOfSheet(df, year, "Number", "Author")
             ELSE Err("MissingProposerColumn")

----------------------------------------------------------------------------
(* Prediction extractors.                                                   *)

S_ChatGPT == <<"c","h","a","t","g","p","t">>

HasDash(id) == \E i \in 1..Len(id) : id[i] = "-"

\* id.split("-", 1)[1]
LocalId(id) ==
    SubSeq(id, Min({i \in 1..Len(id) : id[i] = "-"}) + 1, Len(id))

SelectTitles(names, excluded) ==
    LET keep(name) == name \notin excluded
    IN  SelectSeq(names, keep)

\* the body of the row loop, keeping the local id of the row
LegacyPredictionOfRow_local(row, prob_col, sheet_name, statements) ==
    IF ToInt(row["ID"]).k = "error" THEN Err("ValueError")
    ELSE LET statement_id == IntToStr(ToInt(row["ID"]).n)
             hits == {i \in 1..Len(statements) :
                        /\ HasDash(statements[i].id)
                        /\ LocalId(statements[i].id) = statement_id}
         IN  IF hits = {}
             THEN ErrAt("UnknownStatementReference",
                        <<sheet_name, statement_id>>)
             ELSE Ok([statement_id |-> statement_id,
                      participant  |-> normalize_participant_name(sheet_name),
                      probability  |-> sanitize_probability(row[prob_col])])

\* the body of the row loop, taking an ID that no statement has as it is
LegacyPredictionOfRow_unchecked(row, prob_col, sheet_name, statements) ==
    IF ToInt(row["ID"]).k = "error" THEN Err("ValueError")
    ELSE LET statement_id == IntToStr(ToInt(row["ID"]).n)
             hits == {i \in 1..Len(statements) :
                        /\ HasDash(statements[i].id)
                        /\ LocalId(statements[i].id) = statement_id}
         IN  Ok([statement_id |-> IF hits = {} THEN statement_id
                                  ELSE statements[Min(hits)].id,
                 participant  |-> normalize_participant_name(sheet_name),
                 probability  |-> sanitize_probability(row[prob_col])])

\* the body of the loop over the rows of one participant sheet
LegacyPredictionOfRow(row, prob_col, sheet_name, statements) ==
    IF ToInt(row["ID"]).k = "error" THEN Err("ValueError")
    ELSE LET statement_id == IntToStr(ToInt(row["ID"]).n)
             hits == {i \in 1..Len(statements) :
                        /\ HasDash(statements[i].id)
                        /\ LocalId(statements[i].id) = statement_id}
         IN  IF hits = {}
             THEN ErrAt("UnknownStatementReference",
                        <<sheet_name, statement_id>>)
             ELSE Ok([statement_id |-> statements[Min(hits)].id,
                      participant  |-> normalize_participant_name(sheet_name),
                      probability  |-> sanitize_probability(row[prob_col])])

\* the body of the sheet loop without the test of the participant
LegacyPredictionsOfSheet_anyone(file, sheet_name, statements) ==
    LET df          == read_excel(file, sheet_name)
        prob_col    == IF "Probability (0.0 to 1.0)" \in df.columns
                       THEN "Probability (0.0 to 1.0)" ELSE "Probability"
        rows        == dropna(df, "ID")
    IN  IF "ID" \notin df.columns THEN Ok(<<>>)
        ELSE IF prob_col \notin df.columns THEN Ok(<<>>)
        ELSE Collect([i \in 1..Len(rows) |->
                LegacyPredictionOfRow(rows[i], prob_col, sheet_name,
                                      statements)])

\* the body of the loop over the participant sheets
LegacyPredictionsOfSheet(file, sheet_name, statements) ==
    LET participant == normalize_participant_name(sheet_name)
        df          == read_excel(file, sheet_name)
        prob_col    == IF "Probability (0.0 to 1.0)" \in df.columns
                       THEN "Probability (0.0 to 1.0)" ELSE "Probability"
        rows        == dropna(df, "ID")
    IN  IF Lower(participant) = S_ChatGPT THEN Ok(<<>>)
        ELSE IF "ID" \notin df.columns THEN Ok(<<>>)
        ELSE IF prob_col \notin df.columns THEN Ok(<<>>)
        ELSE Collect([i \in 1..Len(rows) |->
                LegacyPredictionOfRow(rows[i], prob_col, sheet_name,
                                      statements)])

extract_predictions_2022_2024(file, statements) ==
    LET participant_sheets ==
            SelectTitles(sheetnames(file), {S_Main, S_Summary, S_Scores})
    IN  CollectAll([i \in 1..Len(participant_sheets) |->
            LegacyPredictionsOfSheet(file, participant_sheets[i], statements)])

Punctuation == {".", "!", "?", ",", ";", ":"}

\* " ".join(s.split()): whitespace runs become one space, none at the ends
RECURSIVE JoinSplit(_)
JoinSplit(s) ==
    LET t      == Strip(s)
        spaces == {i \in 1..Len(t) : t[i] \in Whitespace}
    IN  IF spaces = {} THEN t
        ELSE SubSeq(t, 1, Min(spaces) - 1) \o <<" ">>
                \o JoinSplit(SubSeq(t, Min(spaces), Len(t)))

\* while normalized and normalized[-1] in ".!?,;:"
RECURSIVE StripTrailingPunctuation(_)
StripTrailingPunctuation(s) ==
    IF s # <<>> /\ s[Len(s)] \in Punctuation
    THEN StripTrailingPunctuation(SubSeq(s, 1, Len(s) - 1))
    ELSE s

normalize_text_for_matching(text) ==
    StripTrailingPunctuation(JoinSplit(Lower(Strip(text))))

S_RefError == <<"#","R","E","F","!">>

\* s == prefix
startswith_exact(s, prefix) == s = prefix

startswith(s, prefix) ==
    Len(s) >= Len(prefix) /\ SubSeq(s, 1, Len(prefix)) = prefix

\* text_to_stmt.get(normalized_text): of the statements with that
\* normalized text the last one, which overwrote the others in the dict
TextLookup(statements, normalized_text) ==
    {i \in 1..Len(statements) :
        normalize_text_for_matching(statements[i].text) = normalized_text}

\* the loop body, were the lookup to keep the first statement of a text
CurrentPredictionOfRow_first_wins(row, idx, sheet_name, statements) ==
    LET prediction_text == Strip(ToStr(row["Prediction"]))
        hits == TextLookup(statements,
                           normalize_text_for_matching(prediction_text))
    IN  IF startswith(prediction_text, S_RefError) THEN Ok(<<>>)
        ELSE IF hits = {}
        THEN ErrAt("UnmatchedStatementText",
                   <<sheet_name, idx, prediction_text>>)
        ELSE Ok(<<[statement_id |-> statements[Min(hits)].id,
                   participant  |-> normalize_participant_name(sheet_name),
                   probability  |-> sanitize_probability(row["Probability"])]>>)

\* the body of the loop over the rows of one participant sheet; idx is the
\* row's index in the sheet
CurrentPredictionOfRow(row, idx, sheet_name, statements) ==
    LET prediction_text == Strip(ToStr(row["Prediction"]))
        hits == TextLookup(statements,
                           normalize_text_for_matching(prediction_text))
    IN  IF startswith(prediction_text, S_RefError) THEN Ok(<<>>)
        ELSE IF hits = {}
        THEN ErrAt("UnmatchedStatementText",
                   <<sheet_name, idx, prediction_text>>)
        ELSE Ok(<<[statement_id |-> statements[Max(hits)].id,
                   participant  |-> normalize_participant_name(sheet_name),
                   probability  |-> sanitize_probability(row["Probability"])]>>)

CurrentPredictionsOfSheet(file, sheet_name, statements) ==
    LET participant == normalize_participant_name(sheet_name)
        df          == read_excel(file, sheet_name)
        kept        == {i \in 1..Len(df.rows) : ~IsNA(df.rows[i]["Prediction"])}
    IN  IF Lower(participant) = S_ChatGPT THEN Ok(<<>>)
        ELSE IF "Prediction" \notin df.columns \/ "Probability" \notin df.columns
        THEN Ok(<<>>)
        ELSE CollectAll([i \in 1..Len(df.rows) |->
                IF i \in kept
                THEN CurrentPredictionOfRow(df.rows[i], i - 1, sheet_name,
                                            statements)
                ELSE Ok(<<>>)])

extract_predictions_2025(file, statements) ==
    LET participant_sheets ==
            SelectTitles(sheetnames(file), {S_Statements, S_Summary})
    IN  CollectAll([i \in 1..Len(participant_sheets) |->
            CurrentPredictionsOfSheet(file, participant_sheets[i], statements)])

----------------------------------------------------------------------------
(* Format detector and outcome extractor.                                   *)

LEGACY  == "legacy"
CURRENT == "current"

\* detect_structure testing the legacy markers first
detect_structure_legacy_first(file) ==
    IF ~file.exists THEN Err("FileNotFoundError")
    ELSE IF InSeq(S_Main, sheetnames(file)) \/ InSeq(S_Input, sheetnames(file))
    THEN Ok(LEGACY)
    ELSE IF InSeq(S_Statements, sheetnames(file)) THEN Ok(CURRENT)
    ELSE Err("UnknownStructure")

detect_structure(file) ==
    IF ~file.exists THEN Err("FileNotFoundError")
    ELSE IF InSeq(S_Statements, sheetnames(file)) THEN Ok(CURRENT)
    ELSE IF InSeq(S_Main, sheetnames(file)) \/ InSeq(S_Input, sheetnames(file))
    THEN Ok(LEGACY)
    ELSE Err("UnknownStructure")

NoColumn == "None"

\* df[outcome_col].isna().all()
AllNA(df, col) == \A i \in 1..Len(df.rows) : IsNA(df.rows[i][col])

\* the same with the Summary sheet consulted for Input as for Main
LegacyOutcomeSource_any_primary(file) ==
    LET sheet_name == IF InSeq(S_Main, sheetnames(file)) THEN S_Main
                      ELSE S_Input
        df         == read_excel(file, sheet_name)
        outcome_col ==
            IF "Outcome (1 = true, 0 = false)" \in df.columns
            THEN "Outcome (1 = true, 0 = false)"
            ELSE IF "Outcome" \in df.columns THEN "Outcome"
            ELSE NoColumn
        summary    == read_excel(file, S_Summary)
    IN  IF /\ (outcome_col = NoColumn \/ AllNA(df, outcome_col))
           /\ InSeq(S_Summary, sheetnames(file))
        THEN <<S_Summary,
               IF "Outcome (0 = false, 1 = true)" \in summary.columns
               THEN "Outcome (0 = false, 1 = true)"
               ELSE IF "Outcome (1 = true, 0 = false)" \in summary.columns
               THEN "Outcome (1 = true, 0 = false)"
               ELSE "Outcome">>
        ELSE <<sheet_name, outcome_col>>

\* The sheet and the outcome column extract_outcomes settles on for a
\* LEGACY file: <<sheet name, outcome_col>>.
LegacyOutcomeSource(file) ==
    LET sheet_name == IF InSeq(S_Main, sheetnames(file)) THEN S_Main
                      ELSE S_Input
        df         == read_excel(file, sheet_name)
        outcome_col ==
            IF "Outcome (1 = true, 0 = false)" \in df.columns
            THEN "Outcome (1 = true, 0 = false)"
            ELSE IF "Outcome" \in df.columns THEN "Outcome"
            ELSE NoColumn
        summary    == read_excel(file, S_Summary)
    IN  IF /\ sheet_name = S_Main
           /\ (outcome_col = NoColumn \/ AllNA(df, outcome_col))
           /\ InSeq(S_Summary, sheetnames(file))
        THEN <<S_Summary,
               IF "Outcome (0 = false, 1 = true)" \in summary.columns
               THEN "Outcome (0 = false, 1 = true)"
               ELSE IF "Outcome (1 = true, 0 = false)" \in summary.columns
               THEN "Outcome (1 = true, 0 = false)"
               ELSE "Outcome">>
        ELSE <<sheet_name, outcome_col>>

\* the same for a CURRENT file
CurrentOutcomeSource(file) ==
    <<S_Statements,
      IF "Outcome (1 = true, 0 = false)" \in
            read_excel(file, S_Statements).columns
      THEN "Outcome (1 = true, 0 = false)"
      ELSE "Outcome">>

\* the loop body, were a statement without a row an error
OutcomeOfStatement_unmatched_raises(df, id_col, outcome_col, stmt) ==
    LET local_id  == IF HasDash(stmt.id) THEN LocalId(stmt.id) ELSE stmt.id
        row_match == {i \in 1..Len(df.rows) :
                        ~IsNA(df.rows[i][id_col])
                        /\ CellEq(df.rows[i][id_col],
                                  PyInt(ParseInt(local_id).n))}
        outcome   == IF row_match = {} THEN Err("KeyError")
                     ELSE parse_outcome(iloc(df, Min(row_match), outcome_col))
    IN  IF id_col \notin df.columns THEN Err("KeyError")
        ELSE IF ParseInt(local_id).k = "error" THEN Err("ValueError")
        ELSE IF row_match # {} /\ outcome_col \notin df.columns
        THEN Err("KeyError")
        ELSE IF ~outcome.ok THEN outcome
        ELSE Ok([statement_id |-> stmt.id,
                 outcome      |-> outcome.val,
                 date         |-> "None"])

\* the body of the loop over the statements
OutcomeOfStatement(df, id_col, outcome_col, stmt) ==
    LET local_id  == IF HasDash(stmt.id) THEN LocalId(stmt.id) ELSE stmt.id
        row_match == {i \in 1..Len(df.rows) :
                        ~IsNA(df.rows[i][id_col])
                        /\ CellEq(df.rows[i][id_col],
                                  PyInt(ParseInt(local_id).n))}
        outcome   == IF row_match = {} THEN parse_outcome(PyNone)
                     ELSE parse_outcome(iloc(df, Min(row_match), outcome_col))
    IN  IF id_col \notin df.columns THEN Err("KeyError")
        ELSE IF ParseInt(local_id).k = "error" THEN Err("ValueError")
        ELSE IF row_match # {} /\ outcome_col \notin df.columns
        THEN Err("KeyError")
        ELSE IF ~outcome.ok THEN outcome
        ELSE Ok([statement_id |-> stmt.id,
                 outcome      |-> outcome.val,
                 date         |-> "None"])

\* the same, keeping the resolved outcomes only
extract_outcomes_resolved(file, statements) ==
    IF ~detect_structure(file).ok THEN detect_structure(file)
    ELSE LET structure == detect_structure(file).val
             source    == IF structure = LEGACY THEN LegacyOutcomeSource(file)
                          ELSE CurrentOutcomeSource(file)
             df        == read_excel(file, source[1])
             id_col    == IF structure = LEGACY THEN "ID" ELSE "Number"
             all       == Collect([i \in 1..Len(statements) |->
                             OutcomeOfStatement(df, id_col, source[2],
                                                statements[i])])
             resolved(o) == o.outcome # OutUnresolved
         IN  IF all.ok THEN Ok(SelectSeq(all.val, resolved)) ELSE all

extract_outcomes(file, statements) ==
    IF ~detect_structure(file).ok THEN detect_structure(file)
    ELSE LET structure == detect_structure(file).val
             source    == IF structure = LEGACY THEN LegacyOutcomeSource(file)
                          ELSE CurrentOutcomeSource(file)
             df        == read_excel(file, source[1])
             id_col    == IF structure = LEGACY THEN "ID" ELSE "Number"
         IN  Collect([i \in 1..Len(statements) |->
                OutcomeOfStatement(df, id_col, source[2], statements[i])])

----------------------------------------------------------------------------
(* File parser.                                                             *)

\* re.search(r'20\d{2}', stem): where the first match starts, 0 if none
\* the last match of the pattern instead of the first
YearMatchLast(stem) ==
    LET hits == {i \in 1..(Len(stem) - 3) :
                    /\ stem[i] = "2" /\ stem[i + 1] = "0"
                    /\ stem[i + 2] \in Digits /\ stem[i + 3] \in Digits}
    IN  IF hits = {} THEN 0 ELSE Max(hits)

YearMatch(stem) ==
    LET hits == {i \in 1..(Len(stem) - 3) :
                    /\ stem[i] = "2" /\ stem[i + 1] = "0"
                    /\ stem[i + 2] \in Digits /\ stem[i + 3] \in Digits}
    IN  IF hits = {} THEN 0 ELSE Min(hits)

\* int(match.group())
YearOf(stem) == DigitsToNat(SubSeq(stem, YearMatch(stem), YearMatch(stem) + 3))

GameData(statements, predictions, outcomes) ==
    [statements |-> statements, predictions |-> predictions,
     outcomes |-> outcomes]

parse_xlsx_file(file) ==
    IF YearMatch(file.stem) = 0 THEN Err("YearExtractionFailed")
    ELSE IF ~detect_structure(file).ok THEN detect_structure(file)
    ELSE LET year       == YearOf(file.stem)
             structure  == detect_structure(file).val
             statements == IF structure = LEGACY
                           THEN extract_statements_2022_2024(file, year)
                           ELSE extract_statements_2025(file, year)
             predictions == IF structure = LEGACY
                            THEN extract_predictions_2022_2024(file, statements.val)
                            ELSE extract_predictions_2025(file, statements.val)
             outcomes   == extract_outcomes(file, statements.val)
         IN  IF ~statements.ok THEN statements
             ELSE IF ~predictions.ok THEN predictions
             ELSE IF ~outcomes.ok THEN outcomes
             ELSE Ok(GameData(statements.val, predictions.val, outcomes.val))

----------------------------------------------------------------------------
(* Inputs of the value sanitizers.                                          *)

StrAlphabet == {"0", "1", ".", "-", " "}

\* every string over StrAlphabet of at most MaxStrLen characters
ShortStrings == UNION {[1..n -> StrAlphabet] : n \in 0..MaxStrLen}

WordStrings ==
    {<<"n","a","n">>, <<"N","a","N">>, <<"i","n","f">>, <<"-","i","n","f">>,
     <<"a","b","c">>, <<"T","R","U","E">>, <<"+","1">>, <<"\t","1","\n">>,
     <<"0",".","5">>, <<" ","0",".","0"," ">>, <<" ","1",".","0"," ">>,
     <<"1",".","0","0">>, <<"0",".","2","5">>}

Values ==
    {PyNone, PyNaN, PyOther, PyBool(TRUE), PyBool(FALSE)}
        \cup {PyInt(i) : i \in -2..2}
        \cup {PyFloat(x * Tenth) : x \in -MaxNum..MaxNum}
        \cup {PyStr(s) : s \in ShortStrings \cup WordStrings}

NoRet == ErrAt("pending", <<>>)

\* the variables of parse_xlsx_file and parse_all_years, while neither runs
AggregatorIdle ==
    /\ locals = <<>>
    /\ xlsx_files = <<>>
    /\ k = 0
    /\ all_statements = <<>>
    /\ all_predictions = <<>>
    /\ all_outcomes = <<>>
    /\ statements_by_year = <<>>

aggVars == <<locals, xlsx_files, k, all_statements, all_predictions, all_outcomes,
             statements_by_year>>

InitValue ==
    /\ pc = "call"
    /\ arg \in Values
    /\ ret = NoRet
    /\ AggregatorIdle

CallValidateProbability ==
    /\ pc = "call"
    /\ pc' = "validate_probability"
    /\ ret' = validate_probability(arg)
    /\ UNCHANGED <<arg, aggVars>>

CallSanitizeProbability ==
    /\ pc = "call"
    /\ pc' = "sanitize_probability"
    /\ ret' = Ok(sanitize_probability(arg))
    /\ UNCHANGED <<arg, aggVars>>

CallParseOutcome ==
    /\ pc = "call"
    /\ pc' = "parse_outcome"
    /\ ret' = parse_outcome(arg)
    /\ UNCHANGED <<arg, aggVars>>

NextValue ==
    \/ CallValidateProbability
    \/ CallSanitizeProbability
    \/ CallParseOutcome

SpecValue == InitValue /\ [][NextValue]_vars

----------------------------------------------------------------------------
(* Claims about the value sanitizers (checked under SpecValue).             *)

\* The outcome the documented table gives a value, "fails" where it gives
\* none.  numberTypes: the types whose values count as numbers.
TableOutcome(v, numberTypes) ==
    IF v.t = "NoneType" THEN OutUnresolved
    ELSE IF v.t = "str" THEN
        CASE Strip(v.s) \in {<<>>, <<"-">>}          -> OutUnresolved
          [] Strip(v.s) \in {<<"0">>, <<"0",".","0">>} -> OutFalse
          [] Strip(v.s) \in {<<"1">>, <<"1",".","0">>} -> OutTrue
          [] OTHER                                     -> "fails"
    ELSE IF v.t \in numberTypes THEN
        CASE IsNaN(v)     -> OutUnresolved
          [] ~IsNaN(v) /\ v.n = 0     -> OutFalse
          [] ~IsNaN(v) /\ v.n = Scale -> OutTrue
          [] OTHER        -> "fails"
    ELSE "fails"

MatchesTable(numberTypes) ==
    pc = "parse_outcome" =>
        IF TableOutcome(arg, numberTypes) = "fails"
        THEN ~ret.ok /\ ret.err = "UnparsableOutcome"
        ELSE ret.ok /\ ret.val = TableOutcome(arg, numberTypes)

\* C7 as stated: parse_outcome maps None, NaN, "" and "-" (trimmed) to
\* unresolved, "0"/"0.0" (trimmed) and the numbers 0/0.0 to false, "1"/"1.0"
\* (trimmed) and the numbers 1/1.0 to true, and fails on every other input,
\* every value of any other type included.
C7_ParseOutcomeAsStated == MatchesTable({"int", "float"})

\* C7 amended: as above, and the booleans True and False, which are ints to
\* isinstance, map to true and false instead of failing.
C7_ParseOutcomeTable == MatchesTable({"int", "float", "bool"})

C7_Witness ==
    /\ pc = "parse_outcome"
    /\ arg = PyBool(TRUE)
    /\ ret.ok /\ ret.val = OutTrue

\* C8: sanitize_probability never fails; where validate_probability fails it
\* returns exactly 0.5, and where validate_probability succeeds it returns
\* the same value.
C8_SanitizeAgreesWithValidate ==
    pc = "sanitize_probability" =>
        /\ ret.ok
        /\ IF validate_probability(arg).ok
           THEN ret.val = validate_probability(arg).val
           ELSE 2 * ret.val = Scale

C8_Witness ==
    /\ pc = "sanitize_probability"
    /\ ~validate_probability(arg).ok
    /\ arg.t = "float" /\ arg.n > Scale
    /\ 2 * ret.val = Scale

\* C9: validate_probability returns the numeric value of every number or
\* numeric string whose value lies in [0,1], bounds included, and fails with
\* an invalid-probability error for None, non-numeric input, NaN and every
\* value below 0 or above 1.
C9_ValidateProbability ==
    pc = "validate_probability" =>
        LET isNumber  == IsIntOrFloat(arg) /\ ~IsNaN(arg)
            isNumeric == arg.t = "str" /\ ParseFloat(arg.s).k \in {"num", "inf"}
            isNaN     == IsNaN(arg) \/ (arg.t = "str" /\ ParseFloat(arg.s).k = "nan")
            value     == IF isNumber THEN arg.n ELSE ParseFloat(arg.s).n
            finite    == isNumber \/ ParseFloat(arg.s).k = "num"
        IN  IF (isNumber \/ isNumeric) /\ finite /\ 0 <= value /\ value <= Scale
            THEN ret.ok /\ ret.val = value
            ELSE /\ \/ arg.t = "NoneType"
                    \/ isNaN
                    \/ ~(isNumber \/ isNumeric)
                    \/ ~finite \/ value < 0 \/ value > Scale
                 /\ ~ret.ok /\ ret.err = "InvalidProbability"

C9_Witness ==
    /\ pc = "validate_probability"
    /\ arg = PyStr(<<"1", ".", "0">>)
    /\ ret.ok /\ ret.val = Scale

----------------------------------------------------------------------------
(* Inputs of the name normalizer.                                           *)

\* A name input has at most MaxPad whitespace characters on each side.
MaxPad == 1

UpperChar(c) ==
    IF \E u \in DOMAIN UpperToLower : UpperToLower[u] = c
    THEN CHOOSE u \in DOMAIN UpperToLower : UpperToLower[u] = c
    ELSE c

\* s in every letter case
CaseVariants(s) ==
    {[i \in 1..Len(s) |-> IF i \in up THEN UpperChar(s[i]) ELSE LowerChar(s[i])] :
        up \in SUBSET (1..Len(s))}

Pads == UNION {[1..n -> {" ", "\t"}] : n \in 0..MaxPad}

BaseNames ==
    DOMAIN name_mapping
        \cup {<<"a","l","i","c","e">>, <<"c","h","a","t","g","p","t">>,
              <<"b","o"," ","o","f">>, <<>>}

Names ==
    {l \o v \o r : l \in Pads, r \in Pads,
                   v \in UNION {CaseVariants(b) : b \in BaseNames}}

InitName ==
    /\ pc = "call"
    /\ arg \in Names
    /\ ret = <<>>
    /\ AggregatorIdle

\* normalized = normalize_participant_name(name)
CallNormalizeName ==
    /\ pc = "call"
    /\ pc' = "normalized"
    /\ ret' = <<normalize_participant_name(arg)>>
    /\ UNCHANGED <<arg, aggVars>>

\* normalize_participant_name(normalized)
CallNormalizeNameAgain ==
    /\ pc = "normalized"
    /\ pc' = "renormalized"
    /\ ret' = Append(ret, normalize_participant_name(ret[1]))
    /\ UNCHANGED <<arg, aggVars>>

NextName ==
    \/ CallNormalizeName
    \/ CallNormalizeNameAgain

SpecName == InitName /\ [][NextName]_vars

----------------------------------------------------------------------------
(* Claims about the name normalizer (checked under SpecName).               *)

\* C10: normalize_participant_name is idempotent: for every input x (alias,
\* canonical name, unknown name, padded or not, in any letter case)
\* normalize(normalize(x)) = normalize(x).
C10_NormalizeIdempotent ==
    pc = "renormalized" => ret[2] = ret[1]

C10_Witness ==
    /\ pc = "renormalized"
    /\ arg = <<" ","b","O","O","F","\t">>
    /\ ret[1] = <<"B","r","u","c","e">>
    /\ ret[2] = ret[1]

\* the alias table as the specification gives it: the keys of each
\* canonical name
AliasesOf ==
    [canonical \in {<<"B","r","u","c","e">>, <<"G","a","e","l">>,
                    <<"C","h","r","i","s","t","i","n","e">>} |->
        CASE canonical = <<"B","r","u","c","e">>
                -> {<<"b","o","o","f">>, <<"b","r","u","c","e">>}
          [] canonical = <<"G","a","e","l">>
                -> {<<"g","a","e","l">>, <<"g","a","ë","l">>,
                    <<"g","ä","e","l">>}
          [] canonical = <<"C","h","r","i","s","t","i","n","e">>
                -> {<<"c","h","r","i","s">>,
                    <<"c","h","r","i","s","t","i","n","e">>}]

\* name is a letter-case variant of key with whitespace around it
IsVariantOf(name, key) ==
    \E i, j \in 1..Len(name) :
        /\ j - i + 1 = Len(key)
        /\ \A n \in 1..Len(key) :
              name[i + n - 1] \in {key[n], UpperChar(key[n])}
        /\ \A n \in (1..(i - 1)) \cup ((j + 1)..Len(name)) :
              name[n] \in Whitespace

----------------------------------------------------------------------------
(* Input workbooks.                                                         *)

\* A statement sheet has at most MaxRows rows.
MaxRows == 2
\* A participant sheet has at most MaxPRows rows.
MaxPRows == 2

T_Alice   == <<"A","l","i","c","e">>
T_Boof    == <<"B","o","o","f">>
T_Bruce   == <<"B","r","u","c","e">>
T_ChatGPT == <<"C","h","a","t","G","P","T">>
T_ChatGPTPadded == <<" ","C","H","A","T","g","p","t">>

\* the number x as pandas reads a numeric cell
Num(x) == PyFloat(x * Scale)

Sheet(title, columns, rows) ==
    [title |-> title, columns |-> columns, rows |-> rows]

\* a path to a workbook that exists
File(stem, sheets) == [stem |-> stem, sheets |-> sheets, exists |-> TRUE]

\* a path to no file
MissingFile(stem) == [stem |-> stem, sheets |-> <<>>, exists |-> FALSE]

\* every sequence over S of at most n elements
SeqsUpTo(S, n) == UNION {[1..m -> S] : m \in 0..n}

Eras == {S_Main, S_Input, S_Statements}

StatementColumns(era) ==
    IF era = S_Statements
    THEN {"Number", "Name", "Prediction", "Category", "Outcome"}
    ELSE {"ID", "Prediction", "Category", "Proposer", "Outcome"}

\* A statement sheet whose i-th row holds id cell cells[i][1], text
\* cells[i][2] and outcome cell cells[i][3].
StatementSheet(era, cells) ==
    Sheet(era, StatementColumns(era),
          [i \in 1..Len(cells) |->
              [c \in StatementColumns(era) |->
                  CASE c \in {"ID", "Number"}     -> cells[i][1]
                    [] c = "Prediction"           -> PyStr(cells[i][2])
                    [] c = "Category"             -> PyStr(<<"S","p","o","r","t">>)
                    [] c \in {"Proposer", "Name"} ->
                          PyStr(<<"B","o","o","f"," ","a","n","d"," ","A","l">>)
                    [] c = "Outcome"              -> cells[i][3]]])

IdCells == {PyNaN, Num(1), PyFloat(15 * Tenth), Num(2), PyStr(<<"1">>)}

OutcomeCells == {PyNaN, Num(1), Num(0), PyStr(<<"-">>), PyFloat(5 * Tenth)}

\* A participant sheet of the legacy era: cells[i] is <<ID, Probability>>.
LegacyParticipantSheet(title, cells) ==
    Sheet(title, {"ID", "Probability"},
          [i \in 1..Len(cells) |->
              [c \in {"ID", "Probability"} |->
                  IF c = "ID" THEN cells[i][1] ELSE cells[i][2]]])

\* A participant sheet of the current era: cells[i] is
\* <<Prediction, Probability>>.
CurrentParticipantSheet(title, cells) ==
    Sheet(title, {"Prediction", "Probability"},
          [i \in 1..Len(cells) |->
              [c \in {"Prediction", "Probability"} |->
                  IF c = "Prediction" THEN cells[i][1] ELSE cells[i][2]]])

ParticipantSheet(era, title, cells) ==
    IF era = S_Statements THEN CurrentParticipantSheet(title, cells)
    ELSE LegacyParticipantSheet(title, cells)

Stem2022 == <<"t","_","2","0","2","2">>

\* the outcome cells of the files that vary the id cells: none, a valid
\* one, an unparsable one
FewOutcomeCells == {PyNaN, Num(1), PyFloat(5 * Tenth)}

\* the statement sheet of cells[i] = <<id cell, outcome cell>>, the i-th
\* text being "q" and the digit i, and one participant sheet without rows
StatementFile(era, cells) ==
    File(Stem2022,
         <<StatementSheet(era,
               [i \in 1..Len(cells) |->
                   <<cells[i][1], <<"q", DigitChar(i)>>, cells[i][2]>>]),
           ParticipantSheet(era, T_Alice, <<>>)>>)

\* Files that vary the id cells of the statement sheet.
StatementFiles ==
    {StatementFile(era, cells) :
        era \in Eras, cells \in SeqsUpTo(IdCells \X FewOutcomeCells, MaxRows)}

\* Files that vary the outcome cells of the statement sheet, the ids being
\* 1, 2, ...
OutcomeFiles ==
    {StatementFile(era, [i \in 1..Len(cells) |-> <<Num(i), cells[i]>>]) :
        era \in Eras, cells \in SeqsUpTo(OutcomeCells, MaxRows)}

\* the statement lists of the files that vary the participant sheets:
\* distinct texts, and two texts that normalize to the same
TextA  == <<"A">>
TextB  == <<"B">>
TextA2 == <<" ","a",".">>

\* (an outcome column of whole numbers only would be int64; with an empty
\* cell it is float64, as in the fixture)
StatementLists ==
    {<<<<Num(1), TextA, Num(1)>>, <<Num(2), TextB, PyNaN>>>>,
     <<<<Num(1), TextA, PyNaN>>, <<Num(2), TextA2, Num(0)>>>>}

LegacyParticipantCells ==
    {<<Num(1), PyFloat(3 * Tenth)>>, <<Num(1), PyNaN>>,
     <<Num(1), PyStr(<<"x">>)>>, <<Num(2), PyFloat(15 * Tenth)>>,
     <<Num(2), PyFloat(-Tenth)>>, <<Num(7), PyFloat(3 * Tenth)>>,
     <<PyNaN, PyFloat(3 * Tenth)>>, <<PyStr(<<"x">>), PyFloat(3 * Tenth)>>}

CurrentParticipantCells ==
    {<<PyStr(TextA), PyFloat(3 * Tenth)>>, <<PyStr(TextA), PyFloat(15 * Tenth)>>,
     <<PyStr(<<"b","!">>), PyStr(<<"x">>)>>,
     <<PyStr(<<"b","!">>), PyNaN>>,
     <<PyStr(<<"#","R","E","F","!">>), PyStr(<<"x">>)>>,
     <<PyStr(<<" ","#","R","E","F","!","a">>), PyNaN>>,
     <<PyStr(<<"z">>), PyFloat(3 * Tenth)>>,
     <<PyNaN, PyFloat(3 * Tenth)>>}

ParticipantCells(era) ==
    IF era = S_Statements THEN CurrentParticipantCells
    ELSE LegacyParticipantCells

\* Files that vary the participant sheets: a sheet Boof of any rows, then
\* maybe a sheet Bruce (the same participant) of at most one row, then
\* maybe a sheet ChatGPT whose row matches no statement.
ParticipantFilesOf(era) ==
    {File(Stem2022,
          <<StatementSheet(era, stmts),
            ParticipantSheet(era, T_Boof, boof)>>
            \o (IF bruce = <<>> THEN <<>>
                ELSE <<ParticipantSheet(era, T_Bruce, bruce)>>)
            \o (IF chatgpt
                THEN <<ParticipantSheet(era, T_ChatGPTPadded,
                          <<IF era = S_Statements
                            THEN <<PyStr(<<"z">>), PyNaN>>
                            ELSE <<Num(7), PyNaN>>>>)>>
                ELSE <<>>)) :
        stmts \in StatementLists,
        boof \in SeqsUpTo(ParticipantCells(era), MaxPRows),
        bruce \in SeqsUpTo(ParticipantCells(era), 1),
        chatgpt \in BOOLEAN}

ParticipantFiles == ParticipantFilesOf(S_Main) \cup ParticipantFilesOf(S_Statements)

\* Files that fail before any sheet is read: no year in the name, no marker
\* sheet.
StemNotes == <<"n","o","t","e","s">>

OddFiles ==
    {File(StemNotes, <<StatementSheet(S_Main, <<>>)>>),
     File(Stem2022, <<ParticipantSheet(S_Main, T_Alice, <<>>)>>)}

\* A file of the family below has at most MaxSheets sheets.
MaxSheets == 3

MarkerTitles == {S_Main, S_Input, S_Statements, S_Summary, T_Alice}

\* the sheet of this title in the files that vary the sheet names: a
\* statement sheet of one row for a marker title, a legacy participant sheet
\* of one row for Alice, an empty sheet for Summary
MarkerSheet(title) ==
    IF title \in Eras
    THEN StatementSheet(title, <<<<Num(1), TextA, PyStr(<<"-">>)>>>>)
    ELSE IF title = T_Alice
    THEN LegacyParticipantSheet(title, <<<<Num(1), PyFloat(3 * Tenth)>>>>)
    ELSE Sheet(title, {}, <<>>)

\* Files that vary the sheet names and their order.
MarkerFiles ==
    {File(Stem2022, [i \in 1..Len(titles) |-> MarkerSheet(titles[i])]) :
        titles \in {t \in SeqsUpTo(MarkerTitles, MaxSheets) :
                       \A i, j \in 1..Len(t) : i # j => t[i] # t[j]}}

\* file name stems with no year, one year and more than one
YearStems ==
    {<<"2","0","2","3","_","2","0","2","4">>, <<"1","2","0","2","4">>,
     <<"1","9","9","9">>, <<"x","2","0","9","9">>, <<"2","0","2">>,
     <<"2","0","0","0">>, <<"2","0","a","1","2","0","2","5">>}

\* Files that vary the file name, of either era, with one statement and one
\* prediction.
StemFiles ==
    {File(stem, <<MarkerSheet(era),
                  ParticipantSheet(era, T_Boof,
                      <<IF era = S_Statements
                        THEN <<PyStr(TextA), PyFloat(3 * Tenth)>>
                        ELSE <<Num(1), PyFloat(3 * Tenth)>>>>)>>) :
        stem \in YearStems, era \in {S_Main, S_Statements}}

\* the sheet of this title in the files below, for n statements: a
\* participant sheet that answers each of them once, an empty Summary
AnsweringSheet(era, title, n) ==
    IF title = S_Summary THEN Sheet(title, {}, <<>>)
    ELSE ParticipantSheet(era, title,
            [i \in 1..n |->
                <<IF era = S_Statements THEN PyStr(<<"q", DigitChar(i)>>)
                  ELSE Num(i),
                  PyFloat(3 * Tenth)>>])

\* Files in which every participant sheet answers every statement, as in
\* the fixtures: some of the sheets Alice, Boof, ChatGPT and Summary after
\* the statement sheet.
AnsweredFiles ==
    {File(Stem2022,
          <<StatementSheet(era,
                [i \in 1..n |-> <<Num(i), <<"q", DigitChar(i)>>,
                                  IF i = 1 THEN PyStr(<<"-">>) ELSE Num(1)>>])>>
            \o [i \in 1..Len(titles) |-> AnsweringSheet(era, titles[i], n)]) :
        era \in {S_Main, S_Statements},
        n \in 1..MaxRows,
        titles \in {SelectTitles(<<T_Alice, T_Boof, T_ChatGPT, S_Summary>>,
                                 out) :
                      out \in SUBSET {T_Alice, T_Boof, T_ChatGPT, S_Summary}}}

\* the names of the outcome column
O_ZeroFirst == "Outcome (0 = false, 1 = true)"
O_OneFirst  == "Outcome (1 = true, 0 = false)"
O_Plain     == "Outcome"

\* A legacy statement sheet of the ids 1, 2, ... whose outcome column is
\* named outcome_col and holds cells, or which has none (NoColumn).
PrimarySheet(era, outcome_col, cells) ==
    LET columns == {"ID", "Prediction", "Category", "Proposer"}
                        \cup ({outcome_col} \ {NoColumn})
    IN  Sheet(era, columns,
              [i \in 1..Len(cells) |->
                  [c \in columns |->
                      CASE c = "ID"         -> Num(i)
                        [] c = outcome_col  -> cells[i]
                        [] OTHER            -> PyStr(<<"q", DigitChar(i)>>)]])

\* A Summary sheet of the ids 1, 2, ... with the outcome columns named in
\* columns; cell[c] is what column c holds in its first row, and in the
\* others unless they are blank.
SummarySheet(has_id, columns, cell, blank, n) ==
    LET all == columns \cup (IF has_id THEN {"ID"} ELSE {})
    IN  Sheet(S_Summary, all,
              [i \in 1..n |->
                  [c \in all |->
                      IF c = "ID" THEN Num(i)
                      ELSE IF i > 1 /\ blank THEN PyNaN
                      ELSE cell[c]]])

\* what the outcome columns of a Summary sheet hold: a different verdict in
\* each column
SummaryCells ==
    {[c \in {O_ZeroFirst, O_OneFirst, O_Plain} |->
        CASE c = O_ZeroFirst -> Num(1) [] c = O_OneFirst -> Num(0)
          [] OTHER -> PyStr(<<"-">>)],
     [c \in {O_ZeroFirst, O_OneFirst, O_Plain} |->
        CASE c = O_ZeroFirst -> PyStr(<<"-">>) [] c = O_OneFirst -> Num(1)
          [] OTHER -> Num(0)]}

\* Files that vary the outcome column of the primary sheet and the Summary
\* sheet: with and without one, its columns, what they hold.
SummaryFiles ==
    LET primaries ==
            {PrimarySheet(era, col, cells) :
                era \in {S_Main, S_Input},
                col \in {NoColumn, O_Plain, O_OneFirst},
                cells \in [1..MaxRows -> {PyNaN, Num(1)}]}
        summaries ==
            {SummarySheet(has_id, columns, cell, blank, MaxRows) :
                has_id \in BOOLEAN,
                blank \in BOOLEAN,
                columns \in SUBSET {O_ZeroFirst, O_OneFirst, O_Plain},
                cell \in SummaryCells}
    IN  {File(Stem2022, <<primary>>) : primary \in primaries}
        \cup {File(Stem2022, <<primary, summary>>) :
                primary \in primaries, summary \in summaries}

\* a sheet without one of its columns
WithoutColumn(sheet, col) ==
    [sheet EXCEPT !.columns = sheet.columns \ {col},
                  !.rows = [i \in 1..Len(sheet.rows) |->
                              [c \in sheet.columns \ {col} |-> sheet.rows[i][c]]]]

\* Files whose statement sheet has no outcome column, the id cells varying.
NoOutcomeFiles ==
    {File(Stem2022,
          <<WithoutColumn(
                StatementSheet(era,
                    [i \in 1..Len(ids) |->
                        <<ids[i], <<"q", DigitChar(i)>>, PyNaN>>]),
                "Outcome"),
            ParticipantSheet(era, T_Alice, <<>>)>>) :
        era \in Eras, ids \in SeqsUpTo(IdCells, MaxRows)}

\* Paths to files that do not exist, of every stem.
MissingFiles == {MissingFile(stem) : stem \in YearStems \cup {Stem2022, StemNotes}}

Files ==
    StatementFiles \cup OutcomeFiles \cup ParticipantFiles \cup OddFiles
        \cup MarkerFiles \cup StemFiles \cup AnsweredFiles \cup MissingFiles
        \cup SummaryFiles \cup NoOutcomeFiles

----------------------------------------------------------------------------
(* Input directories.                                                       *)

\* A directory holds at most MaxFiles files.
MaxFiles == 2

Suffix == <<".","x","l","s","x">>

\* xlsx_file.name
FileName(file) == file.stem \o Suffix

\* the characters of the file names, in code point order
CodeOrder ==
    <<"-",".","0","1","2","3","4","5","6","7","8","9","_",
      "e","l","n","o","s","t","x">>

CharCode(c) == Min({i \in 1..Len(CodeOrder) : CodeOrder[i] = c})

\* a < b for two str
StrLess(a, b) ==
    \E i \in 1..(Len(a) + 1) :
        /\ i <= Len(b)
        /\ SubSeq(a, 1, i - 1) = SubSeq(b, 1, i - 1)
        /\ (i = Len(a) + 1 \/ CharCode(a[i]) < CharCode(b[i]))

RECURSIVE sorted_descending(_)
\* sorted(..., reverse=True)
sorted_descending(files) ==
    IF files = {} THEN <<>>
    ELSE LET first == CHOOSE f \in files :
                        \A g \in files \ {f} :
                            StrLess(FileName(g), FileName(f))
         IN  <<first>> \o sorted_descending(files \ {first})

\* sorted(input_dir.glob("*.xlsx")) of a directory whose files are all
\* .xlsx files, no two of one name
RECURSIVE sorted(_)
sorted(files) ==
    IF files = {} THEN <<>>
    ELSE LET first == CHOOSE f \in files :
                        \A g \in files \ {f} :
                            StrLess(FileName(f), FileName(g))
         IN  <<first>> \o sorted(files \ {first})

DirStems ==
    {<<"2","0","2","2">>, <<"t","_","2","0","2","2">>, <<"2","0","2","3">>,
     StemNotes}

\* the id cells of the statement sheets of the directories' files
LegacyIdLists ==
    {<<>>, <<Num(1)>>, <<Num(1), Num(2)>>,
     <<PyFloat(12 * Tenth), PyFloat(17 * Tenth)>>}

CurrentIdLists == {<<Num(1)>>, <<Num(2), Num(3)>>}

\* The sheets of a file whose statements have these id cells, the i-th text
\* being "q" and the digit i, with one participant
\* sheet, which answers the first statement.  The first outcome is 1 and
\* the others are empty.
DirSheets(era, ids) ==
    <<StatementSheet(era,
          [i \in 1..Len(ids) |->
              <<ids[i], <<"q", DigitChar(i)>>,
                IF i = 1 THEN Num(1) ELSE PyNaN>>]),
      ParticipantSheet(era, T_Boof,
          IF ids = <<>> THEN <<>>
          ELSE IF era = S_Statements
          THEN <<<<PyStr(<<"Q","1","!">>), PyFloat(3 * Tenth)>>>>
          ELSE <<<<PyInt(ToInt(ids[1]).n), PyFloat(3 * Tenth)>>>>)>>

DirContents ==
    {DirSheets(S_Main, ids) : ids \in LegacyIdLists}
        \cup {DirSheets(S_Statements, ids) : ids \in CurrentIdLists}
        \cup {\* an unparsable outcome
              <<StatementSheet(S_Main,
                    <<<<Num(1), <<"q","1">>, PyFloat(5 * Tenth)>>>>)>>,
              \* no marker sheet
              <<ParticipantSheet(S_Main, T_Alice, <<>>)>>}

\* A directory: the contents of each of its files, by stem.
Directories ==
    UNION {[stems -> DirContents] :
            stems \in {d \in SUBSET DirStems : Cardinality(d) <= MaxFiles}}

FilesOf(dir) == {File(stem, dir[stem]) : stem \in DOMAIN dir}

----------------------------------------------------------------------------
(* parse_all_years and parse_xlsx_file, step by step.                       *)

NoFile == [stem |-> <<>>, sheets |-> <<>>, exists |-> FALSE]

NoLocals == [filepath |-> NoFile, year |-> 0, structure |-> "None",
             statements |-> <<>>, predictions |-> <<>>]

Init ==
    /\ pc = "call"
    /\ arg \in Directories
    /\ ret = NoRet
    /\ locals = NoLocals
    /\ xlsx_files = <<>>
    /\ k = 0
    /\ all_statements = <<>>
    /\ all_predictions = <<>>
    /\ all_outcomes = <<>>
    /\ statements_by_year = <<>>

\* parse_xlsx_file called on a file
InitFile ==
    /\ pc = "file"
    /\ arg \in Files
    /\ ret = NoRet
    /\ locals = [NoLocals EXCEPT !.filepath = arg]
    /\ xlsx_files = <<>>
    /\ k = 0
    /\ all_statements = <<>>
    /\ all_predictions = <<>>
    /\ all_outcomes = <<>>
    /\ statements_by_year = <<>>

dirVars == <<xlsx_files, k, all_statements, all_predictions, all_outcomes,
             statements_by_year>>

\* xlsx_files = sorted(input_dir.glob("*.xlsx"))
ListStep ==
    /\ pc = "call"
    /\ IF FilesOf(arg) = {}
       THEN /\ pc' = "failed"
            /\ ret' = Err("NoFilesFound")
            /\ UNCHANGED xlsx_files
       ELSE /\ pc' = "loop"
            /\ xlsx_files' = sorted(FilesOf(arg))
            /\ UNCHANGED ret
    /\ UNCHANGED <<arg, locals, k, all_statements, all_predictions,
                   all_outcomes, statements_by_year>>

\* for xlsx_file in xlsx_files: game_data = parse_xlsx_file(xlsx_file)
EnterStep ==
    /\ pc = "loop"
    /\ k < Len(xlsx_files)
    /\ pc' = "file"
    /\ locals' = [NoLocals EXCEPT !.filepath = xlsx_files[k + 1]]
    /\ UNCHANGED <<arg, ret, dirVars>>

\* a step of parse_xlsx_file that raises
Raise(result) ==
    /\ pc' = "raised"
    /\ ret' = result
    /\ UNCHANGED locals

\* year = int(match.group()); structure = detect_structure(filepath)
DetectStep ==
    /\ pc = "file"
    /\ LET filepath == locals.filepath
       IN  IF YearMatch(filepath.stem) = 0
           THEN Raise(Err("YearExtractionFailed"))
           ELSE IF ~detect_structure(filepath).ok
           THEN Raise(detect_structure(filepath))
           ELSE /\ pc' = "detected"
                /\ locals' = [locals EXCEPT
                                !.year = YearOf(filepath.stem),
                                !.structure = detect_structure(filepath).val]
                /\ UNCHANGED ret
    /\ UNCHANGED <<arg, dirVars>>

\* statements = extract_statements_...(filepath, year)
StatementsStep ==
    /\ pc = "detected"
    /\ LET statements ==
              IF locals.structure = LEGACY
              THEN extract_statements_2022_2024(locals.filepath, locals.year)
              ELSE extract_statements_2025(locals.filepath, locals.year)
       IN  IF ~statements.ok THEN Raise(statements)
           ELSE /\ pc' = "statements"
                /\ locals' = [locals EXCEPT !.statements = statements.val]
                /\ UNCHANGED ret
    /\ UNCHANGED <<arg, dirVars>>

\* predictions = extract_predictions_...(filepath, statements)
PredictionsStep ==
    /\ pc = "statements"
    /\ LET predictions ==
              IF locals.structure = LEGACY
              THEN extract_predictions_2022_2024(locals.filepath,
                                                 locals.statements)
              ELSE extract_predictions_2025(locals.filepath,
                                            locals.statements)
       IN  IF ~predictions.ok THEN Raise(predictions)
           ELSE /\ pc' = "predictions"
                /\ locals' = [locals EXCEPT !.predictions = predictions.val]
                /\ UNCHANGED ret
    /\ UNCHANGED <<arg, dirVars>>

\* outcomes = extract_outcomes(filepath, statements); return GameData(...)
OutcomesStep ==
    /\ pc = "predictions"
    /\ LET outcomes == extract_outcomes(locals.filepath, locals.statements)
       IN  IF ~outcomes.ok THEN Raise(outcomes)
           ELSE /\ pc' = "parsed"
                /\ ret' = Ok(GameData(locals.statements, locals.predictions,
                                      outcomes.val))
                /\ UNCHANGED locals
    /\ UNCHANGED <<arg, dirVars>>

NextFile ==
    \/ DetectStep
    \/ StatementsStep
    \/ PredictionsStep
    \/ OutcomesStep

SpecFile == InitFile /\ [][NextFile]_vars

\* the year the loop body checks the file's ids under: 0 for None
YearOfFile(file, game_data) ==
    IF YearMatch(file.stem) # 0 THEN YearOf(file.stem)
    ELSE IF game_data.statements # <<>> THEN game_data.statements[1].year
    ELSE 0

\* the ids of the year, forgotten from one file to the next
SeenInFresh(by_year, year) == {}

SeenIn(by_year, year) == IF year \in DOMAIN by_year THEN by_year[year] ELSE {}

\* the loop over game_data.statements without its test
CollisionsUnchecked(statements, seen) == {}

\* the statements at which the loop over game_data.statements finds the id
\* in statements_by_year[year]
Collisions(statements, seen) ==
    {i \in 1..Len(statements) :
        \/ statements[i].id \in seen
        \/ \E j \in 1..(i - 1) : statements[j].id = statements[i].id}

\* the exception raised again as it is
Wrapped_bare(file, e) == e

\* except Exception as e: raise ValueError(f"Error parsing {name}: {e}")
Wrapped(file, e) == ErrAt(e.err, <<FileName(file)>> \o e.info)

WrapStep ==
    /\ pc = "raised"
    /\ pc' = "failed"
    /\ ret' = Wrapped(locals.filepath, ret)
    /\ UNCHANGED <<arg, locals, dirVars>>

\* statements_by_year once the ids of these statements are added to the
\* set of the year
Claimed(by_year, year, statements) ==
    [y \in DOMAIN by_year \cup {year} |->
        IF y = year
        THEN SeenIn(by_year, year)
                \cup {statements[i].id : i \in 1..Len(statements)}
        ELSE by_year[y]]

\* the rest of the loop body: the check of the file's ids against those of
\* its year, and the three extends
CheckStep ==
    /\ pc = "parsed"
    /\ LET game_data == ret.val
           year      == YearOfFile(locals.filepath, game_data)
           seen      == SeenIn(statements_by_year, year)
           hit       == Collisions(game_data.statements, seen)
       IN  IF year # 0 /\ hit # {}
           THEN /\ pc' = "failed"
                /\ ret' = Wrapped(locals.filepath,
                             ErrAt("DuplicateIDAcrossFiles",
                                   <<game_data.statements[Min(hit)].id, year>>))
                /\ statements_by_year' =
                      Claimed(statements_by_year, year,
                              SubSeq(game_data.statements, 1, Min(hit) - 1))
                /\ UNCHANGED <<xlsx_files, k, all_statements, all_predictions,
                               all_outcomes>>
           ELSE /\ pc' = "loop"
                /\ ret' = NoRet
                /\ k' = k + 1
                /\ statements_by_year' =
                      IF year = 0 THEN statements_by_year
                      ELSE Claimed(statements_by_year, year,
                                   game_data.statements)
                /\ all_statements' = all_statements \o game_data.statements
                /\ all_predictions' = all_predictions \o game_data.predictions
                /\ all_outcomes' = all_outcomes \o game_data.outcomes
                /\ UNCHANGED xlsx_files
    /\ UNCHANGED <<arg, locals>>

\* return GameData(...)
ReturnStep ==
    /\ pc = "loop"
    /\ k = Len(xlsx_files)
    /\ pc' = "returned"
    /\ ret' = Ok(GameData(all_statements, all_predictions, all_outcomes))
    /\ UNCHANGED <<arg, locals, dirVars>>

Next ==
    \/ ListStep
    \/ EnterStep
    \/ NextFile
    \/ WrapStep
    \/ CheckStep
    \/ ReturnStep

Spec == Init /\ [][Next]_vars

----------------------------------------------------------------------------
(* The statements, predictions and outcomes of a file and of a directory.   *)

NoRepeats(seq) == \A i, j \in 1..Len(seq) : i # j => seq[i] # seq[j]

StatementIds(statements) == [i \in 1..Len(statements) |-> statements[i].id]

YearAndLocalId(statements) ==
    [i \in 1..Len(statements) |->
        <<statements[i].year, LocalId(statements[i].id)>>]

PredictionKeys(predictions) ==
    [i \in 1..Len(predictions) |->
        <<predictions[i].participant, predictions[i].statement_id>>]

Finished == pc \in {"returned", "failed"}

\* C1: when parse_all_years returns a GameData, no two of its statements
\* have the same global id, and no two the same (year, local id).
C1_UniqueStatementIds ==
    pc = "returned" =>
        /\ NoRepeats(StatementIds(ret.val.statements))
        /\ NoRepeats(YearAndLocalId(ret.val.statements))

\* parse_all_years returns the statements of a legacy and of a current file,
\* of two years, with one local id in both.
C1_Witness ==
    /\ pc = "returned"
    /\ \E f, g \in FilesOf(arg) :
          /\ detect_structure(f).val = LEGACY
          /\ detect_structure(g).val = CURRENT
    /\ \E i, j \in 1..Len(ret.val.statements) :
          /\ ret.val.statements[i].year # ret.val.statements[j].year
          /\ LocalId(ret.val.statements[i].id)
                = LocalId(ret.val.statements[j].id)

\* C2: no two predictions of a GameData that parse_xlsx_file or
\* parse_all_years returns have the same (participant, statement_id).
C2_UniquePredictions ==
    /\ pc = "parsed" => NoRepeats(PredictionKeys(ret.val.predictions))
    /\ pc = "returned" => NoRepeats(PredictionKeys(ret.val.predictions))

\* the outcomes extract_outcomes returns for these statements: one for each,
\* in their order, with the statement's id
OneOutcomePerStatement(outcomes, statements) ==
    /\ Len(outcomes) = Len(statements)
    /\ \A i \in 1..Len(statements) :
          /\ outcomes[i].statement_id = statements[i].id
          /\ outcomes[i].outcome \in {OutTrue, OutFalse, OutUnresolved}

\* C3: when extract_outcomes returns, in parse_xlsx_file, there is one
\* outcome for each statement, in the statements' order, with the
\* statement's id and an outcome of true, false or unresolved; and a GameData
\* that parse_xlsx_file or parse_all_years returns has as many outcomes as
\* statements.
C3_OneOutcomePerStatement ==
    /\ pc = "parsed" =>
          /\ ret.val.statements = locals.statements
          /\ OneOutcomePerStatement(ret.val.outcomes, locals.statements)
    /\ pc = "returned" =>
          OneOutcomePerStatement(ret.val.outcomes, ret.val.statements)

\* parse_all_years returns the outcomes of two files, one of them unresolved
\* and one true.
C3_Witness ==
    /\ pc = "returned"
    /\ Len(xlsx_files) = 2
    /\ Len(ret.val.statements) >= 3
    /\ \E i, j \in 1..Len(ret.val.outcomes) :
          /\ ret.val.outcomes[i].outcome = OutUnresolved
          /\ ret.val.outcomes[j].outcome = OutTrue

\* C4: the statements extracted from one file have distinct ids.
C4_StatementIdsUnique ==
    pc = "statements" => NoRepeats(StatementIds(locals.statements))

\* the statements the file's statement sheet gives, <<>> when there are none
DefinedStatements(file) ==
    IF YearMatch(file.stem) = 0 \/ ~detect_structure(file).ok THEN <<>>
    ELSE LET statements ==
                IF detect_structure(file).val = LEGACY
                THEN extract_statements_2022_2024(file, YearOf(file.stem))
                ELSE extract_statements_2025(file, YearOf(file.stem))
         IN  IF statements.ok THEN statements.val ELSE <<>>

DefinedIds(file) ==
    {DefinedStatements(file)[i].id : i \in 1..Len(DefinedStatements(file))}

\* two files of one filename year that define one local id
SameYearSameId(f, g) ==
    /\ f # g
    /\ YearMatch(f.stem) # 0 /\ YearMatch(g.stem) # 0
    /\ YearOf(f.stem) = YearOf(g.stem)
    /\ DefinedIds(f) \cap DefinedIds(g) # {}

ParsesAlone(file) == parse_xlsx_file(file).ok

\* the years in which an id comes twice, in one file or in two
CollidingYears ==
    {YearOf(f.stem) :
        f \in {f \in FilesOf(arg) :
                 \/ ~NoRepeats(StatementIds(DefinedStatements(f)))
                 \/ \E g \in FilesOf(arg) : SameYearSameId(f, g)}}

IsDuplicateError == ret.err = "DuplicateIDAcrossFiles"

\* C5, as stated: with two files of one year that define one local id,
\* parse_all_years fails with the duplicate-ID error that names the year.
C5_DuplicateErrorAlways ==
    \A f, g \in FilesOf(arg) :
        (Finished /\ SameYearSameId(f, g)) =>
            /\ pc = "failed"
            /\ IsDuplicateError
            /\ ret.info[3] = YearOf(f.stem)

\* C5: with two files of one year that define one local id, parse_all_years
\* returns no GameData; its error is the error of a file that does not parse
\* on its own, or the duplicate-ID error naming a year in which an id comes
\* twice; it is the duplicate-ID error when every file parses on its own, and
\* names the year of the two files when no other year has an id twice.
C5_DuplicateAcrossFiles ==
    \A f, g \in FilesOf(arg) :
        (Finished /\ SameYearSameId(f, g)) =>
            /\ pc = "failed"
            /\ \/ IsDuplicateError /\ ret.info[3] \in CollidingYears
               \/ \E h \in FilesOf(arg) :
                     /\ ~ParsesAlone(h)
                     /\ ret = Wrapped(h, parse_xlsx_file(h))
            /\ (\A h \in FilesOf(arg) : ParsesAlone(h)) => IsDuplicateError
            /\ (IsDuplicateError /\ CollidingYears = {YearOf(f.stem)}) =>
                  ret.info[3] = YearOf(f.stem)

\* The second of two files of one year brings an id of the first, which
\* parsed, and parse_all_years fails with the duplicate-ID error.
C5_Witness ==
    /\ pc = "failed"
    /\ IsDuplicateError
    /\ k = 1
    /\ \E f, g \in FilesOf(arg) :
          /\ SameYearSameId(f, g)
          /\ ret.info[3] = YearOf(f.stem)
          /\ all_statements = DefinedStatements(f)

\* C6: when the directory has files, every file parses on its own and no
\* two files have one year, parse_all_years returns, with the statements of
\* every file.
C6_DistinctYearsSucceed ==
    (/\ Finished
     /\ FilesOf(arg) # {}
     /\ \A f \in FilesOf(arg) : ParsesAlone(f)
     /\ \A f, g \in FilesOf(arg) :
           f # g => YearOf(f.stem) # YearOf(g.stem)) =>
        /\ pc = "returned"
        /\ \A f \in FilesOf(arg) :
              DefinedIds(f) \subseteq
                 {ret.val.statements[i].id :
                    i \in 1..Len(ret.val.statements)}

----------------------------------------------------------------------------
(* Claims about parse_xlsx_file and its steps.                              *)

\* the set of the sheet names of the file being parsed
SheetNameSet ==
    {locals.filepath.sheets[i].title : i \in 1..Len(locals.filepath.sheets)}

\* detect_structure has been called by parse_xlsx_file, on a file that
\* exists
Detected ==
    /\ pc # "file"
    /\ locals.filepath.exists
    /\ YearMatch(locals.filepath.stem) # 0

UnknownStructureRaised == pc = "raised" /\ ret.err = "UnknownStructure"

\* C12: the result of detect_structure is given by the set of the sheet
\* names: CURRENT with a sheet "Statements", whatever else there is, LEGACY
\* without it and with "Main" or "Input", and the unknown-structure error
\* with none of the three.
C12_DetectStructure ==
    Detected =>
        IF S_Statements \in SheetNameSet
        THEN locals.structure = CURRENT /\ ~UnknownStructureRaised
        ELSE IF S_Main \in SheetNameSet \/ S_Input \in SheetNameSet
        THEN locals.structure = LEGACY /\ ~UnknownStructureRaised
        ELSE UnknownStructureRaised

\* a file with the sheets Main and Statements, in this order, is CURRENT
C12_Witness ==
    /\ pc = "detected"
    /\ Len(locals.filepath.sheets) >= 2
    /\ locals.filepath.sheets[1].title = S_Main
    /\ S_Statements \in SheetNameSet
    /\ locals.structure = CURRENT

\* the sheets the legacy prediction extractor loops over
LegacySheets(file) ==
    SelectTitles(sheetnames(file), {S_Main, S_Summary, S_Scores})

\* the positions <<s, r>> of the rows with an ID in the s-th of these sheets
LegacyRows(file) ==
    {p \in (1..Len(LegacySheets(file))) \X (1..(MaxPRows + 1)) :
        LET df == read_excel(file, LegacySheets(file)[p[1]])
        IN  /\ p[2] <= Len(df.rows)
            /\ "ID" \in df.columns
            /\ ~IsNA(df.rows[p[2]]["ID"])}

LegacyRowId(file, p) ==
    read_excel(file, LegacySheets(file)[p[1]]).rows[p[2]]["ID"]

\* the row's ID is an integer that is the local id of no statement
IsUnknownRow(file, statements, p) ==
    /\ ToInt(LegacyRowId(file, p)).k # "error"
    /\ \A i \in 1..Len(statements) :
          LocalId(statements[i].id) # IntToStr(ToInt(LegacyRowId(file, p)).n)

\* the sheet is read: it is not ChatGPT's and has a probability column
IsReadSheet(file, s) ==
    LET df == read_excel(file, LegacySheets(file)[s])
    IN  /\ Lower(Strip(LegacySheets(file)[s])) # S_ChatGPT
        /\ "ID" \in df.columns
        /\ \/ "Probability" \in df.columns
           \/ "Probability (0.0 to 1.0)" \in df.columns

\* p comes before q in the order of the sheets and rows
RowBefore(p, q) == p[1] < q[1] \/ (p[1] = q[1] /\ p[2] < q[2])

NamesRow(result, file, p) ==
    /\ result.err = "UnknownStatementReference"
    /\ result.info = <<LegacySheets(file)[p[1]],
                       IntToStr(ToInt(LegacyRowId(file, p)).n)>>

\* C13, as stated: a row of a participant sheet whose ID is the local id of
\* no statement makes the legacy prediction extraction fail with the
\* unknown-statement-reference error naming such a row's sheet and ID.
C13_UnknownReferenceAlways ==
    [][(/\ pc = "statements"
        /\ locals.structure = LEGACY
        /\ \E p \in LegacyRows(locals.filepath) :
              IsUnknownRow(locals.filepath, locals.statements, p))
          => /\ pc' = "raised"
             /\ \E p \in LegacyRows(locals.filepath) :
                   /\ IsUnknownRow(locals.filepath, locals.statements, p)
                   /\ NamesRow(ret', locals.filepath, p)]_vars

\* C13: a row with an ID that is the local id of no statement, in a sheet
\* that is read, makes the legacy prediction extraction fail, at the first
\* row of the read sheets whose ID is no integer or no statement's: with the
\* unknown-statement-reference error naming that row's sheet and ID in the
\* second case, with the conversion error in the first.
C13_UnknownReference ==
    [][(/\ pc = "statements"
        /\ locals.structure = LEGACY)
          => LET file  == locals.filepath
                 read  == {p \in LegacyRows(file) : IsReadSheet(file, p[1])}
                 bad   == {p \in read :
                             \/ ToInt(LegacyRowId(file, p)).k = "error"
                             \/ IsUnknownRow(file, locals.statements, p)}
                 first == CHOOSE p \in bad :
                             \A q \in bad \ {p} : RowBefore(p, q)
             IN  (\E p \in read : IsUnknownRow(file, locals.statements, p))
                    => /\ pc' = "raised"
                       /\ IF IsUnknownRow(file, locals.statements, first)
                          THEN NamesRow(ret', file, first)
                          ELSE ret'.err = "ValueError"]_vars

\* the extraction has failed on the row with ID 7 of the sheet Boof
C13_Witness ==
    /\ pc = "raised"
    /\ ret.err = "UnknownStatementReference"
    /\ ret.info = <<T_Boof, <<"7">>>>
    /\ Len(locals.statements) = 2

\* the Prediction cell is a text that is or starts with "#REF!"
IsRefRow(df, row) ==
    /\ "Prediction" \in df.columns
    /\ row["Prediction"].t = "str"
    /\ \E n \in 0..Len(row["Prediction"].s) :
          /\ \A i \in 1..n : row["Prediction"].s[i] \in Whitespace
          /\ Len(row["Prediction"].s) >= n + 5
          /\ SubSeq(row["Prediction"].s, n + 1, n + 5)
                = <<"#","R","E","F","!">>

\* the file without the "#REF!" rows of its sheets other than Statements
WithoutRefRows(file) ==
    [file EXCEPT !.sheets =
        [s \in 1..Len(file.sheets) |->
            IF file.sheets[s].title = S_Statements THEN file.sheets[s]
            ELSE LET keep(row) == ~IsRefRow(file.sheets[s], row)
                 IN  [file.sheets[s] EXCEPT
                        !.rows = SelectSeq(file.sheets[s].rows, keep)]]]

HasRefRow(file) ==
    \E s \in 1..Len(file.sheets) :
        /\ file.sheets[s].title # S_Statements
        /\ \E r \in 1..Len(file.sheets[s].rows) :
              IsRefRow(file.sheets[s], file.sheets[s].rows[r])

\* C14: the current-era prediction extraction of a file gives what it gives
\* for the file without its "#REF!" rows: the same predictions, or the
\* failure on the same sheet and text (the row number apart, which counts
\* the rows of the sheet).
C14_RefRowsDropped ==
    [][(/\ pc = "statements"
        /\ locals.structure = CURRENT)
          => LET expected ==
                    extract_predictions_2025(WithoutRefRows(locals.filepath),
                                             locals.statements)
             IN  IF expected.ok
                 THEN /\ pc' = "predictions"
                      /\ locals'.predictions = expected.val
                 ELSE /\ pc' = "raised"
                      /\ ret'.err = expected.err
                      /\ ret'.info[1] = expected.info[1]
                      /\ ret'.info[3] = expected.info[3]]_vars

\* the sheet Boof has a "#REF!" row with an unusable probability and then a
\* row that answers a statement: one prediction comes out of it
C14_Witness ==
    /\ pc = "predictions"
    /\ locals.structure = CURRENT
    /\ \E s \in 1..Len(locals.filepath.sheets) :
          LET df == locals.filepath.sheets[s]
          IN  /\ df.title = T_Boof
              /\ Len(df.rows) = 2
              /\ IsRefRow(df, df.rows[1])
              /\ df.rows[1]["Probability"] = PyStr(<<"x">>)
              /\ ~IsRefRow(df, df.rows[2])
              /\ ~IsNA(df.rows[2]["Prediction"])
    /\ Len(locals.predictions) >= 1
    /\ \A i \in 1..Len(locals.predictions) :
          locals.predictions[i].participant = T_Bruce
    /\ Len(locals.filepath.sheets) = 2

\* the first token 20dd of each stem of the files, 0 where there is none
TokenYear ==
    [stem \in YearStems \cup {Stem2022, StemNotes} |->
        CASE stem = <<"2","0","2","3","_","2","0","2","4">> -> 2023
          [] stem = <<"1","2","0","2","4">>                 -> 2024
          [] stem = <<"x","2","0","9","9">>                 -> 2099
          [] stem = <<"2","0","0","0">>                     -> 2000
          [] stem = <<"2","0","a","1","2","0","2","5">>     -> 2025
          [] stem = Stem2022                                -> 2022
          [] OTHER                                          -> 0]

\* the rows of the statement sheet that have an id, and the id column
StatementRowsOf(file, structure) ==
    LET title == IF structure = CURRENT THEN S_Statements
                 ELSE IF InSeq(S_Main, sheetnames(file)) THEN S_Main
                 ELSE S_Input
        col   == IF structure = CURRENT THEN "Number" ELSE "ID"
        df    == read_excel(file, title)
        has_id(row) == ~IsNA(row[col])
    IN  [i \in 1..Len(SelectSeq(df.rows, has_id)) |->
            SelectSeq(df.rows, has_id)[i][col]]

\* the statements have this year, and the i-th the id "{year}-{local_id}"
\* of the i-th id cell
YearPrefixed(statements, year, id_cells) ==
    /\ Len(statements) = Len(id_cells)
    /\ \A i \in 1..Len(statements) :
          /\ statements[i].year = year
          /\ statements[i].id =
                NatToStr(year) \o <<"-">> \o IntToStr(ToInt(id_cells[i]).n)

NoDanglingStatementId(predictions, statements) ==
    \A i \in 1..Len(predictions) :
        \E j \in 1..Len(statements) :
            predictions[i].statement_id = statements[j].id

\* C16: the predictions a prediction extractor returns have the ids of
\* statements it was given, and the predictions of a GameData that
\* parse_xlsx_file or parse_all_years returns the ids of statements of that
\* GameData.
C16_NoDanglingStatementId ==
    /\ pc = "predictions" =>
          NoDanglingStatementId(locals.predictions, locals.statements)
    /\ pc \in {"parsed", "returned"} =>
          NoDanglingStatementId(ret.val.predictions, ret.val.statements)

\* parse_all_years returns the predictions of a legacy and of a current
\* file
C16_Witness ==
    /\ pc = "returned"
    /\ Len(ret.val.predictions) = 2
    /\ ret.val.predictions[1].statement_id # ret.val.predictions[2].statement_id
    /\ \E f, g \in FilesOf(arg) :
          /\ detect_structure(f).val = LEGACY
          /\ detect_structure(g).val = CURRENT

\* the probability the specification gives for a cell: its value when
\* validate_probability accepts it, 0.5 otherwise
RepairedProbability(cell) ==
    IF validate_probability(cell).ok
    THEN PyFloat(validate_probability(cell).val)
    ELSE PyFloat(Scale \div 2)

ProbabilityColumns == {"Probability", "Probability (0.0 to 1.0)"}

\* the file with every probability cell repaired
WithRepairedProbabilities(file) ==
    [file EXCEPT !.sheets =
        [s \in 1..Len(file.sheets) |->
            [file.sheets[s] EXCEPT !.rows =
                [r \in 1..Len(file.sheets[s].rows) |->
                    [c \in DOMAIN file.sheets[s].rows[r] |->
                        IF c \in ProbabilityColumns
                        THEN RepairedProbability(file.sheets[s].rows[r][c])
                        ELSE file.sheets[s].rows[r][c]]]]]]

\* a probability cell of the file is not a valid probability
HasInvalidProbability(file) ==
    \E s \in 1..Len(file.sheets) :
        \E r \in 1..Len(file.sheets[s].rows) :
            \E c \in DOMAIN file.sheets[s].rows[r] \cap ProbabilityColumns :
                ~validate_probability(file.sheets[s].rows[r][c]).ok

\* the extraction of the file with the cells repaired, for either era
RepairedPredictions(file, structure, statements) ==
    IF structure = LEGACY
    THEN extract_predictions_2022_2024(WithRepairedProbabilities(file),
                                       statements)
    ELSE extract_predictions_2025(WithRepairedProbabilities(file), statements)

KeptRows(df, structure) ==
    {r \in 1..Len(df.rows) :
        IF structure = LEGACY THEN ~IsNA(df.rows[r]["ID"])
        ELSE /\ ~IsNA(df.rows[r]["Prediction"])
             /\ ~IsRefRow(df, df.rows[r])}

\* the row answers the statement: by its local id, or by its text
Answers(df, structure, r, statement) ==
    IF structure = LEGACY
    THEN /\ ToInt(df.rows[r]["ID"]).k # "error"
         /\ IntToStr(ToInt(df.rows[r]["ID"]).n) = LocalId(statement.id)
    ELSE normalize_text_for_matching(ToStr(df.rows[r]["Prediction"]))
            = normalize_text_for_matching(statement.text)

\* the sheets that count: not excluded, not ChatGPT's, with the columns
CountedSheets(file, structure) ==
    {s \in 1..Len(file.sheets) :
        LET df == file.sheets[s]
        IN  /\ df.title \notin (IF structure = LEGACY
                                THEN {S_Main, S_Summary, S_Scores}
                                ELSE {S_Statements, S_Summary})
            /\ Lower(Strip(df.title)) # <<"c","h","a","t","g","p","t">>
            /\ IF structure = LEGACY
               THEN "ID" \in df.columns
                    /\ df.columns \cap ProbabilityColumns # {}
               ELSE {"Prediction", "Probability"} \subseteq df.columns}

\* every sheet that counts has one row for each statement and one statement
\* for each row
EveryoneAnswersOnce(file, structure, statements) ==
    \A s \in CountedSheets(file, structure) :
        LET df   == file.sheets[s]
            kept == KeptRows(df, structure)
        IN  /\ Cardinality(kept) = Len(statements)
            /\ \A j \in 1..Len(statements) :
                  \E r \in kept : Answers(df, structure, r, statements[j])
            /\ \A r \in kept :
                  \E j \in 1..Len(statements) :
                      Answers(df, structure, r, statements[j])

\* C18: parse_xlsx_file, of a file in which every participant sheet answers
\* every statement once, returns as many predictions as the product of the
\* number of the sheets that count and the number of the statements.
C18_PredictionCount ==
    (/\ pc = "parsed"
     /\ EveryoneAnswersOnce(locals.filepath, locals.structure,
                            ret.val.statements)) =>
        Len(ret.val.predictions) =
            Cardinality(CountedSheets(locals.filepath, locals.structure))
                * Len(ret.val.statements)

\* two sheets and two statements give four predictions, next to a sheet of
\* ChatGPT and a Summary
C18_Witness ==
    /\ pc = "parsed"
    /\ EveryoneAnswersOnce(locals.filepath, locals.structure,
                           ret.val.statements)
    /\ Len(locals.filepath.sheets) = 5
    /\ Cardinality(CountedSheets(locals.filepath, locals.structure)) = 2
    /\ Len(ret.val.statements) = 2
    /\ Len(ret.val.predictions) = 4

IsChatGPT(name) == Lower(Strip(name)) = <<"c","h","a","t","g","p","t">>

\* the file without its ChatGPT sheets
WithoutChatGPT(file) ==
    LET others(sheet) == ~IsChatGPT(sheet.title)
    IN  [file EXCEPT !.sheets = SelectSeq(file.sheets, others)]

HasChatGPT(file) ==
    \E s \in 1..Len(file.sheets) : IsChatGPT(file.sheets[s].title)

\* C19: the prediction extraction of a file fails or returns as for the
\* file without its ChatGPT sheets, whatever they hold, and returns no
\* prediction of a participant named chatgpt in any letter case.
C19_ChatGPTSkipped ==
    [][pc = "statements"
          => LET expected ==
                    IF locals.structure = LEGACY
                    THEN extract_predictions_2022_2024(
                            WithoutChatGPT(locals.filepath), locals.statements)
                    ELSE extract_predictions_2025(
                            WithoutChatGPT(locals.filepath), locals.statements)
             IN  /\ IF expected.ok
                    THEN /\ pc' = "predictions"
                         /\ locals'.predictions = expected.val
                    ELSE /\ pc' = "raised"
                         /\ ret' = expected
                 /\ \A i \in 1..Len(locals'.predictions) :
                       ~IsChatGPT(locals'.predictions[i].participant)]_vars

\* the predictions of a file with a sheet Boof and a padded, upper-case
\* ChatGPT sheet whose row answers no statement
C19_Witness ==
    /\ pc = "predictions"
    /\ \E s \in 1..Len(locals.filepath.sheets) :
          /\ locals.filepath.sheets[s].title = T_ChatGPTPadded
          /\ Len(locals.filepath.sheets[s].rows) = 1
    /\ Len(locals.predictions) = 2

\* C20: parse_xlsx_file of a path to no file fails with the file-not-found
\* error, whatever the file name.
C20_MissingFileNotFound ==
    (pc # "file" /\ ~locals.filepath.exists) =>
        pc = "raised" /\ ret.err = "FileNotFoundError"

----------------------------------------------------------------------------
(* Validators (validators.py).                                              *)

\* An error or warning message, by the values its f-string names.
NoMsg ==
    [kind |-> "", id |-> <<>>, who |-> <<>>, year |-> 0, n |-> 0,
     prob |-> FNum(0), list |-> <<>>, more |-> FALSE]

ValidationResult(errors, warnings) ==
    [valid |-> Len(errors) = 0, errors |-> errors, warnings |-> warnings]

\* What a call of a validator leaves behind: the result it returns and its
\* argument as the call leaves it.
Returned(result, game_data) == [result |-> result, game_data |-> game_data]

\* The elements of a set of str in the order a loop over the set visits
\* them; order lists every str by its place in the hash table.
SetOrder(S, order) == SelectSeq(order, LAMBDA s : s \in S)

\* The values of a dict of lists keyed by x.lower(), filled by a loop over
\* the set S: the keys in the order of their first member, each list in the
\* order of the loop.
VariantLists(S, order) ==
    LET visited == SetOrder(S, order)
        first(i) == \A j \in 1..(i - 1) : Lower(visited[j]) # Lower(visited[i])
        keys     == SelectSeq(visited,
                        LAMBDA s : \E i \in 1..Len(visited) :
                                        visited[i] = s /\ first(i))
    IN  [g \in 1..Len(keys) |->
            SelectSeq(visited, LAMBDA s : Lower(s) = Lower(keys[g]))]

\* one warning for each list of more than one variant
VariantWarnings(kind, S, order) ==
    LET lists == VariantLists(S, order)
        many  == SelectSeq(lists, LAMBDA l : Len(l) > 1)
    IN  [g \in 1..Len(many) |-> [NoMsg EXCEPT !.kind = kind, !.list = many[g]]]

\* not s or not s.strip()
Blank(s) == s = <<>> \/ Strip(s) = <<>>

\* the errors of the loop body of validate_statements for statement i
StatementErrors(statements, i) ==
    LET stmt == statements[i]
        one(cond, kind) ==
            IF cond THEN <<[NoMsg EXCEPT !.kind = kind, !.id = stmt.id]>>
            ELSE <<>>
    IN  (IF stmt.id = <<>>
         THEN <<[NoMsg EXCEPT !.kind = "Statement missing ID",
                              !.list = <<SubSeq(stmt.text, 1,
                                                Min({50, Len(stmt.text)}))>>]>>
         ELSE <<>>)
        \o one(stmt.year = 0, "missing year")
        \o one(Blank(stmt.text), "missing text")
        \o one(Blank(stmt.category), "missing category")
        \o one(Blank(stmt.proposer), "missing proposer")
        \o (IF \E j \in 1..(i - 1) : /\ statements[j].year = stmt.year
                                     /\ statements[j].id = stmt.id
            THEN <<[NoMsg EXCEPT !.kind = "Duplicate statement ID",
                                 !.id = stmt.id, !.year = stmt.year]>>
            ELSE <<>>)

validate_statements(game_data, order) ==
    LET statements == game_data.statements
        errors     == Concat([i \in 1..Len(statements) |->
                                StatementErrors(statements, i)])
        proposers  == {Strip(statements[i].proposer) :
                        i \in {j \in 1..Len(statements) :
                                statements[j].proposer # <<>>}}
        warnings   == VariantWarnings("Proposer name has multiple variants",
                                      proposers, order)
    IN  Returned(ValidationResult(errors, warnings), game_data)

RECURSIVE SortedIds(_)
\* sorted(ids) of a set of str
SortedIds(ids) ==
    IF ids = {} THEN <<>>
    ELSE LET first == CHOOSE a \in ids : \A b \in ids \ {a} : StrLess(a, b)
         IN  <<first>> \o SortedIds(ids \ {first})

\* probability < 0.0 or probability > 1.0 is false
ProbabilityInRange_nan(probability) ==
    probability.k = "nan" \/ InUnitRange(probability)

\* not (0.0 <= probability <= 1.0) is false
ProbabilityInRange(probability) == InUnitRange(probability)

\* stmt_id_to_year[statement_id]: the year of the last statement of that id
YearOfId(statements, statement_id) ==
    statements[Max({i \in 1..Len(statements) :
                        statements[i].id = statement_id})].year

\* the errors of the loop body of validate_predictions for prediction i
PredictionErrors(game_data, i) ==
    LET pred      == game_data.predictions[i]
        valid_ids == {game_data.statements[j].id :
                        j \in 1..Len(game_data.statements)}
        msg(kind) == [NoMsg EXCEPT !.kind = kind, !.id = pred.statement_id,
                                   !.who = pred.participant]
    IN  IF pred.statement_id \notin valid_ids
        THEN <<[NoMsg EXCEPT !.kind = "non-existent statement ID",
                             !.id = pred.statement_id]>>
        ELSE (IF ~ProbabilityInRange(pred.probability)
              THEN <<[msg("Invalid probability") EXCEPT
                            !.prob = pred.probability]>>
              ELSE <<>>)
             \o (IF \E j \in 1..(i - 1) :
                        /\ game_data.predictions[j].participant = pred.participant
                        /\ game_data.predictions[j].statement_id = pred.statement_id
                 THEN <<msg("Duplicate prediction")>>
                 ELSE <<>>)

\* the keys of participants_by_year in the order of their insertion
TrackedYears(game_data) ==
    LET predictions == game_data.predictions
        valid_ids   == {game_data.statements[j].id :
                            j \in 1..Len(game_data.statements)}
        tracked     == {i \in 1..Len(predictions) :
                            predictions[i].statement_id \in valid_ids}
        year(i)     == YearOfId(game_data.statements, predictions[i].statement_id)
        first       == {i \in tracked :
                            \A j \in tracked : j < i => year(j) # year(i)}
    IN  [n \in 1..Cardinality(first) |->
            year(CHOOSE i \in first :
                    Cardinality({j \in first : j <= i}) = n)]

\* participants_by_year[year]
TrackedParticipants(game_data, year) ==
    {game_data.predictions[i].participant :
        i \in {j \in 1..Len(game_data.predictions) :
                /\ \E s \in 1..Len(game_data.statements) :
                        game_data.statements[s].id
                            = game_data.predictions[j].statement_id
                /\ YearOfId(game_data.statements,
                            game_data.predictions[j].statement_id) = year}}

\* expected_statements, whatever the participant answered
MissingStatements_all(game_data, year, participant) ==
    {game_data.statements[s].id :
        s \in {t \in 1..Len(game_data.statements) :
                game_data.statements[t].year = year}}

\* expected_statements - participant_predictions
MissingStatements(game_data, year, participant) ==
    {game_data.statements[s].id :
        s \in {t \in 1..Len(game_data.statements) :
                game_data.statements[t].year = year}}
    \ {game_data.predictions[i].statement_id :
        i \in {j \in 1..Len(game_data.predictions) :
                game_data.predictions[j].participant = participant}}

\* the warnings of one year of the completeness loop
CompletenessWarnings(game_data, year, order) ==
    LET participants == SetOrder(TrackedParticipants(game_data, year), order)
        one(participant) ==
            LET missing == MissingStatements(game_data, year, participant)
                listed  == SortedIds(missing)
            IN  IF missing = {} THEN <<>>
                ELSE <<[NoMsg EXCEPT
                          !.kind = "missing predictions",
                          !.who  = participant,
                          !.n    = Cardinality(missing),
                          !.year = year,
                          !.list = SubSeq(listed, 1, Min({5, Len(listed)})),
                          !.more = Cardinality(missing) > 5]>>
    IN  Concat([p \in 1..Len(participants) |-> one(participants[p])])

\* validate_predictions consuming the predictions it reads
validate_predictions_consuming(game_data, order) ==
    LET errors   == Concat([i \in 1..Len(game_data.predictions) |->
                                PredictionErrors(game_data, i)])
        years    == TrackedYears(game_data)
        warnings == Concat([y \in 1..Len(years) |->
                                CompletenessWarnings(game_data, years[y], order)])
    IN  Returned(ValidationResult(errors, warnings),
                 [game_data EXCEPT !.predictions = <<>>])

validate_predictions(game_data, order) ==
    LET errors   == Concat([i \in 1..Len(game_data.predictions) |->
                                PredictionErrors(game_data, i)])
        years    == TrackedYears(game_data)
        warnings == Concat([y \in 1..Len(years) |->
                                CompletenessWarnings(game_data, years[y], order)])
    IN  Returned(ValidationResult(errors, warnings), game_data)

validate_cross_year(game_data, order) ==
    LET statements == game_data.statements
        predictions == game_data.predictions
        all_participants ==
            {predictions[i].participant :
                i \in {j \in 1..Len(predictions) :
                        \E s \in 1..Len(statements) :
                            statements[s].id = predictions[j].statement_id}}
        all_categories == {statements[s].category : s \in 1..Len(statements)}
        errors   == <<>>
        warnings ==
            VariantWarnings("Participant name has multiple variants across years",
                            all_participants, order)
            \o VariantWarnings("Category has multiple variants across years",
                               all_categories, order)
    IN  Returned(ValidationResult(errors, warnings), game_data)

\* validate_game_data with warnings counted against valid
validate_game_data_strict(game_data, order) ==
    LET stmt_result  == validate_statements(game_data, order).result
        pred_result  == validate_predictions(game_data, order).result
        cross_result == validate_cross_year(game_data, order).result
        all_errors   == stmt_result.errors \o pred_result.errors
                            \o cross_result.errors
        all_warnings == stmt_result.warnings \o pred_result.warnings
                            \o cross_result.warnings
    IN  [result      |-> [valid    |-> Len(all_errors) = 0 /\ Len(all_warnings) = 0,
                          errors   |-> all_errors,
                          warnings |-> all_warnings],
         game_data   |-> game_data,
         stmt_result |-> stmt_result,
         pred_result |-> pred_result,
         cross_result |-> cross_result]

\* The three results and the combined one.
validate_game_data(game_data, order) ==
    LET stmt_result  == validate_statements(game_data, order).result
        pred_result  == validate_predictions(game_data, order).result
        cross_result == validate_cross_year(game_data, order).result
        all_errors   == stmt_result.errors \o pred_result.errors
                            \o cross_result.errors
        all_warnings == stmt_result.warnings \o pred_result.warnings
                            \o cross_result.warnings
    IN  [result      |-> ValidationResult(all_errors, all_warnings),
         game_data   |-> game_data,
         stmt_result |-> stmt_result,
         pred_result |-> pred_result,
         cross_result |-> cross_result]

----------------------------------------------------------------------------
(* Inputs of the validators: GameData of any content.                       *)

\* at most MaxStatements statements and MaxPredictions predictions, drawn
\* freely
MaxStatements == 2
MaxPredictions == 2
\* the statements of the year whose completeness is examined at length
MaxBig == 7

N_A == <<"A">>
N_a == <<"a">>
N_B == <<"B">>

Id(year, n) == GlobalId(year, NatToStr(n))

Statement(id, year, text, category, proposer) ==
    [id |-> id, year |-> year, text |-> text, category |-> category,
     proposer |-> proposer]

Prediction(statement_id, participant, probability) ==
    [statement_id |-> statement_id, participant |-> participant,
     probability |-> probability]

S1 == Statement(Id(2022, 1), 2022, <<"t">>, N_A, N_A)
S2 == Statement(Id(2022, 2), 2022, <<"u">>, N_a, N_a)
S3 == Statement(Id(2023, 1), 2023, <<"v">>, N_A, N_B)
\* the id of S1 under another year
S1Moved == [S1 EXCEPT !.year = 2023]

OddStatements ==
    {[S1 EXCEPT !.id = <<>>], [S1 EXCEPT !.year = 0],
     [S1 EXCEPT !.text = <<>>], [S1 EXCEPT !.text = <<" ">>],
     [S1 EXCEPT !.category = <<>>], [S1 EXCEPT !.proposer = <<" ">>],
     [S1 EXCEPT !.proposer = <<" ","a">>], S1Moved}

Probabilities == {FNum(3 * Tenth), FNum(0), FNum(Scale), FNum(15 * Tenth),
                  FNum(0 - Tenth), FNaN}

Predictions ==
    {Prediction(id, who, p) :
        id \in {Id(2022, 1), Id(2022, 2), Id(2029, 1)},
        who \in {N_A, N_a, N_B},
        p \in {FNum(3 * Tenth), FNum(15 * Tenth), FNaN}}

SomeOutcomes ==
    <<[statement_id |-> Id(2022, 1), outcome |-> OutTrue, date |-> "None"]>>

\* statements of any content, no predictions
StatementData ==
    {GameData(statements, <<>>, SomeOutcomes) :
        statements \in SeqsUpTo({S1, S2, S3} \cup OddStatements, MaxStatements)}

\* predictions of any content on a few lists of statements
PredictionData ==
    {GameData(statements, predictions, SomeOutcomes) :
        statements \in {<<S1>>, <<S1, S2>>, <<S1, S1>>, <<S3, S2, S1>>,
                        <<S1, S1Moved, S2>>, <<S1Moved, S1, S2>>},
        predictions \in SeqsUpTo(Predictions, MaxPredictions)}

\* a year of n statements, numbered so that the order of the ids as str is
\* not the order of the numbers
BigNumbers == <<1, 10, 2, 3, 11, 4, 5, 6, 12, 7, 8, 9>>

\* one participant who answered the statements in answered, another who
\* answered all
BigYear(n, answered) ==
    GameData([i \in 1..n |->
                Statement(Id(2022, BigNumbers[i]), 2022, <<"t">>, N_A, N_A)],
             Concat([i \in 1..n |->
                IF i \in answered
                THEN <<Prediction(Id(2022, BigNumbers[i]), N_A, FNum(Half))>>
                ELSE <<>>])
             \o [i \in 1..n |->
                    Prediction(Id(2022, BigNumbers[i]), N_B, FNum(Half))],
             <<>>)

BigData ==
    {BigYear(n, answered) :
        n \in {MaxBig - 1, MaxBig},
        answered \in {{1}, {2}, {MaxBig - 1}, {1, 2}, {2, 3}, 1..3, 1..MaxBig}}

\* one prediction of every probability, on a statement or on none
ProbabilityData ==
    {GameData(<<S1>>, <<Prediction(id, N_A, p)>>, SomeOutcomes) :
        id \in {Id(2022, 1), Id(2029, 1)}, p \in Probabilities}

GameDatas ==
    StatementData \cup PredictionData \cup BigData \cup ProbabilityData

\* the orders in which a loop over a set of names visits them
NameUniverse == {<<>>, N_A, N_a, N_B}

HashOrders ==
    {order \in [1..Cardinality(NameUniverse) -> NameUniverse] :
        \A i, j \in 1..Cardinality(NameUniverse) :
            i # j => order[i] # order[j]}

----------------------------------------------------------------------------
(* Calls of the validators.                                                 *)

InitValidate ==
    /\ pc = "validate"
    /\ arg \in GameDatas
    /\ ret = NoRet
    /\ AggregatorIdle

CallValidateStatements ==
    /\ pc = "validate"
    /\ pc' = "validate_statements"
    /\ \E order \in HashOrders :
        LET call == validate_statements(arg, order)
        IN  arg' = call.game_data /\ ret' = Ok(call.result)
    /\ UNCHANGED aggVars

CallValidatePredictions ==
    /\ pc = "validate"
    /\ pc' = "validate_predictions"
    /\ \E order \in HashOrders :
        LET call == validate_predictions(arg, order)
        IN  arg' = call.game_data /\ ret' = Ok(call.result)
    /\ UNCHANGED aggVars

CallValidateCrossYear ==
    /\ pc = "validate"
    /\ pc' = "validate_cross_year"
    /\ \E order \in HashOrders :
        LET call == validate_cross_year(arg, order)
        IN  arg' = call.game_data /\ ret' = Ok(call.result)
    /\ UNCHANGED aggVars

\* locals keeps the results of the three passes
CallValidateGameData ==
    /\ pc = "validate"
    /\ pc' = "validate_game_data"
    /\ \E order \in HashOrders :
        LET call == validate_game_data(arg, order)
        IN  /\ arg' = call.game_data
            /\ ret' = Ok(call.result)
            /\ locals' = [stmt_result  |-> call.stmt_result,
                          pred_result  |-> call.pred_result,
                          cross_result |-> call.cross_result]
    /\ UNCHANGED <<xlsx_files, k, all_statements, all_predictions,
                   all_outcomes, statements_by_year>>

NextValidate ==
    \/ CallValidateStatements
    \/ CallValidatePredictions
    \/ CallValidateCrossYear
    \/ CallValidateGameData

SpecValidate == InitValidate /\ [][NextValidate]_vars

----------------------------------------------------------------------------
(* Claims about the validators (checked under SpecValidate).                *)

\* C21: a call of validate_statements, validate_predictions,
\* validate_cross_year or validate_game_data leaves its GameData argument as
\* it was: the same statements, predictions and outcomes, record by record,
\* also for invalid datasets.
C21_ValidatorsDoNotMutate ==
    [][pc = "validate" =>
        /\ arg'.statements = arg.statements
        /\ arg'.predictions = arg.predictions
        /\ arg'.outcomes = arg.outcomes]_vars

\* validate_predictions has returned errors for a dataset with predictions
C21_Witness ==
    /\ pc = "validate_predictions"
    /\ ~ret.val.valid
    /\ Len(arg.predictions) = MaxPredictions
    /\ arg.outcomes # <<>>

\* how many elements of a sequence satisfy a test
Count(seq, Test(_)) == Cardinality({i \in 1..Len(seq) : Test(seq[i])})

Dangling(game_data, pred) ==
    \A s \in 1..Len(game_data.statements) :
        game_data.statements[s].id # pred.statement_id

OutOfRange(probability) ==
    probability.k # "num" \/ probability.n < 0 \/ probability.n > Scale

\* C22: validate_predictions reports an error of its own for every prediction
\* whose probability is NaN or outside [0,1], and valid is false: the error
\* of the probability, naming the probability, the participant and the
\* statement, or for a prediction on no statement the error of the reference;
\* as many errors as there are such predictions, whatever else is wrong.
C22_OutOfRangeReported ==
    pc = "validate_predictions" =>
        \A i \in 1..Len(arg.predictions) :
            LET pred == arg.predictions[i]
                same(p) == p = pred
                reference(e) == /\ e.kind = "non-existent statement ID"
                                /\ e.id = pred.statement_id
                invalid(e) == /\ e.kind = "Invalid probability"
                              /\ e.prob = pred.probability
                              /\ e.who = pred.participant
                              /\ e.id = pred.statement_id
            IN  OutOfRange(pred.probability) =>
                    /\ ~ret.val.valid
                    /\ IF Dangling(arg, pred)
                       THEN Count(ret.val.errors, reference)
                                = Count(arg.predictions,
                                        LAMBDA p : p.statement_id = pred.statement_id)
                       ELSE Count(ret.val.errors, invalid)
                                = Count(arg.predictions, same)

\* a prediction of probability NaN that repeats an earlier one has been
\* validated
C22_Witness ==
    /\ pc = "validate_predictions"
    /\ Len(arg.predictions) = 2
    /\ arg.predictions[1] = arg.predictions[2]
    /\ arg.predictions[1].probability = FNaN
    /\ ~Dangling(arg, arg.predictions[1])

\* the participant has a prediction on a statement of the year
PredictedIn(game_data, year, participant) ==
    \E i \in 1..Len(game_data.predictions), s \in 1..Len(game_data.statements) :
        /\ game_data.predictions[i].participant = participant
        /\ game_data.predictions[i].statement_id = game_data.statements[s].id
        /\ game_data.statements[s].year = year

\* the ids of the statements of the year without a prediction by the
\* participant
Unanswered(game_data, year, participant) ==
    {game_data.statements[s].id :
        s \in {t \in 1..Len(game_data.statements) :
                /\ game_data.statements[t].year = year
                /\ \A i \in 1..Len(game_data.predictions) :
                    game_data.predictions[i].participant = participant
                        => game_data.predictions[i].statement_id
                                # game_data.statements[t].id}}

YearsOf(game_data) ==
    {game_data.statements[s].year : s \in 1..Len(game_data.statements)}

ParticipantsOf(game_data) ==
    {game_data.predictions[i].participant : i \in 1..Len(game_data.predictions)}

\* What the completeness check is to report for a dataset: one warning for
\* each year and participant of that year with unanswered statements and no
\* other, listing at most 5 of the unanswered ids, and no error.
CompletenessReported(game_data, result) ==
    /\ \A year \in YearsOf(game_data), who \in ParticipantsOf(game_data) :
        LET about(w) == w.year = year /\ w.who = who
        IN  Count(result.warnings, about)
                = IF /\ PredictedIn(game_data, year, who)
                     /\ Unanswered(game_data, year, who) # {}
                  THEN 1 ELSE 0
    /\ \A i \in 1..Len(result.warnings) :
        LET w == result.warnings[i]
            unanswered == Unanswered(game_data, w.year, w.who)
        IN  /\ w.kind = "missing predictions"
            /\ w.year \in YearsOf(game_data)
            /\ w.who \in ParticipantsOf(game_data)
            /\ w.n = Cardinality(unanswered)
            /\ Len(w.list) = Min({5, w.n})
            /\ w.list = SubSeq(SortedIds(unanswered), 1, Len(w.list))
            /\ w.more = (w.n > 5)
    /\ \A i \in 1..Len(result.errors) :
        result.errors[i].kind # "missing predictions"
    /\ result.valid = (Len(result.errors) = 0)

\* no statement id stands under two years
OneYearPerId(game_data) ==
    \A s, t \in 1..Len(game_data.statements) :
        game_data.statements[s].id = game_data.statements[t].id
            => game_data.statements[s].year = game_data.statements[t].year

C28_ValidIffNoErrors ==
    pc = "validate_game_data" =>
        /\ ret.val.valid = (ret.val.errors = <<>>)
        /\ \E order \in HashOrders :
            LET structural  == validate_statements(arg, order).result
                referential == validate_predictions(arg, order).result
                cross_year  == validate_cross_year(arg, order).result
            IN  /\ ret.val.valid = (structural.valid /\ referential.valid)
                /\ cross_year.errors = <<>>
                /\ ret.val.errors = structural.errors \o referential.errors
                /\ ret.val.warnings = structural.warnings
                        \o referential.warnings \o cross_year.warnings
                /\ locals.stmt_result = structural
                /\ locals.pred_result = referential
                /\ locals.cross_result = cross_year

\* a dataset with warnings of two passes and no error has been found valid
C28_Witness ==
    /\ pc = "validate_game_data"
    /\ ret.val.valid
    /\ locals.pred_result.warnings # <<>>
    /\ locals.cross_result.warnings # <<>>

----------------------------------------------------------------------------
(* Claims about extract_outcomes (checked under SpecFile).                  *)

\* the statement sheet of a LEGACY file
PrimaryName(file) ==
    IF InSeq(S_Main, sheetnames(file)) THEN S_Main ELSE S_Input

\* the outcome column of the primary sheet, NoColumn if it has none
PrimaryOutcomeColumn(file) ==
    LET columns == read_excel(file, PrimaryName(file)).columns
    IN  IF O_OneFirst \in columns THEN O_OneFirst
        ELSE IF O_Plain \in columns THEN O_Plain
        ELSE NoColumn

\* the outcome column of the Summary sheet
SummaryOutcomeColumn(file) ==
    LET columns == read_excel(file, S_Summary).columns
    IN  CASE O_ZeroFirst \in columns -> O_ZeroFirst
          [] O_ZeroFirst \notin columns /\ O_OneFirst \in columns -> O_OneFirst
          [] OTHER -> O_Plain

\* the outcomes of the statements as column outcome_col of a sheet gives
\* them
OutcomesFrom(file, sheet_name, outcome_col, statements) ==
    Collect([i \in 1..Len(statements) |->
        OutcomeOfStatement(read_excel(file, sheet_name), "ID", outcome_col,
                           statements[i])])

\* the outcome step gives what reading that sheet and column gives: the
\* outcomes or the failure
OutcomeStepGives(expected) ==
    IF expected.ok
    THEN pc' = "parsed" /\ ret'.val.outcomes = expected.val
    ELSE pc' = "raised" /\ ret'.err = expected.err

PrimaryColumnEmpty(file) ==
    /\ PrimaryOutcomeColumn(file) # NoColumn
    /\ AllNA(read_excel(file, PrimaryName(file)), PrimaryOutcomeColumn(file))

PrimaryColumnHasValue(file) ==
    /\ PrimaryOutcomeColumn(file) # NoColumn
    /\ ~AllNA(read_excel(file, PrimaryName(file)), PrimaryOutcomeColumn(file))

FromSummary(file, statements) ==
    OutcomesFrom(file, S_Summary, SummaryOutcomeColumn(file), statements)

FromPrimary(file, statements) ==
    OutcomesFrom(file, PrimaryName(file), PrimaryOutcomeColumn(file), statements)

\* C24 as stated, for the files that have a Summary sheet: a LEGACY file,
\* of primary sheet Main or Input, whose primary outcome column is entirely
\* empty has its outcomes read from the Summary sheet, from the first of
\* the columns "Outcome (0 = false, 1 = true)", "Outcome (1 = true, 0 =
\* false)", "Outcome"; when the primary outcome column holds a value the
\* outcomes are read from the primary sheet.
C24_SummaryFallbackAnyPrimary ==
    [][(/\ pc = "predictions"
        /\ locals.structure = LEGACY
        /\ InSeq(S_Summary, sheetnames(locals.filepath)))
          => /\ PrimaryColumnEmpty(locals.filepath)
                    => OutcomeStepGives(FromSummary(locals.filepath,
                                                    locals.statements))
             /\ PrimaryColumnHasValue(locals.filepath)
                    => OutcomeStepGives(FromPrimary(locals.filepath,
                                                    locals.statements))]_vars

\* C24, amended: the outcomes are read from the Summary sheet, by that
\* priority of columns, exactly when the primary sheet is Main, its outcome
\* column is entirely empty or missing, and the file has a Summary sheet;
\* in every other case, a primary sheet Input included, they are read from
\* the primary sheet.
C24_SummaryFallback ==
    [][(/\ pc = "predictions"
        /\ locals.structure = LEGACY)
          => LET file == locals.filepath
             IN  IF /\ PrimaryName(file) = S_Main
                    /\ ~PrimaryColumnHasValue(file)
                    /\ InSeq(S_Summary, sheetnames(file))
                 THEN OutcomeStepGives(FromSummary(file, locals.statements))
                 ELSE OutcomeStepGives(FromPrimary(file, locals.statements))]_vars

\* Main with an empty outcome column, Summary with the three columns: the
\* outcomes are those of the column "Outcome (0 = false, 1 = true)"
C24_Witness ==
    /\ pc = "parsed"
    /\ sheetnames(locals.filepath) = <<S_Main, S_Summary>>
    /\ PrimaryColumnEmpty(locals.filepath)
    /\ {O_ZeroFirst, O_OneFirst, O_Plain}
            \subseteq read_excel(locals.filepath, S_Summary).columns
    /\ Len(ret.val.outcomes) = MaxRows
    /\ ret.val.outcomes[1].outcome = OutTrue

----------------------------------------------------------------------------
(* Claims about the run of parse_all_years (checked under Spec).            *)

\* the statements parse_xlsx_file gives for a file, none if it fails
ParsedStatements(file) ==
    IF parse_xlsx_file(file).ok THEN parse_xlsx_file(file).val.statements
    ELSE <<>>

\* The j-th file of the listing fails: its parsing, or the check of its ids
\* against those of the earlier files of its year and against each other.
FileFails(files, j) ==
    LET parsed == parse_xlsx_file(files[j])
        year   == YearOfFile(files[j], parsed.val)
        seen   == UNION {{ParsedStatements(files[i])[s].id :
                                s \in 1..Len(ParsedStatements(files[i]))} :
                            i \in {h \in 1..(j - 1) :
                                    /\ parse_xlsx_file(files[h]).ok
                                    /\ YearOfFile(files[h],
                                            parse_xlsx_file(files[h]).val)
                                        = year}}
    IN  \/ ~parsed.ok
        \/ year # 0 /\ Collisions(parsed.val.statements, seen) # {}

\* the listing is in the order of the file names
InNameOrder(files) ==
    \A i \in 1..(Len(files) - 1) :
        StrLess(FileName(files[i]), FileName(files[i + 1]))

\* C25: parse_all_years takes the files one at a time in the order of their
\* names; at the first file whose parsing or duplicate check fails the run
\* ends with an error naming that file, no later file is parsed, and
\* nothing is returned; a GameData is returned only when no file fails.
C25_FailFast ==
    [][/\ pc # "failed" /\ pc # "returned"
       /\ InNameOrder(xlsx_files')
       /\ pc' = "file" => locals'.filepath = xlsx_files[k + 1]
       /\ (pc' = "failed" /\ pc # "call") =>
            /\ ~ret'.ok
            /\ Len(ret'.info) >= 1
            /\ ret'.info[1] = FileName(xlsx_files[k + 1])
            /\ locals.filepath = xlsx_files[k + 1]
            /\ FileFails(xlsx_files, k + 1)
            /\ \A j \in 1..k : ~FileFails(xlsx_files, j)
            /\ UNCHANGED <<k, all_statements, all_predictions, all_outcomes>>
       /\ pc' = "returned" =>
            /\ k = Len(xlsx_files)
            /\ \A j \in 1..Len(xlsx_files) : ~FileFails(xlsx_files, j)]_vars

\* the first of two files has failed: the second was never parsed
C25_Witness ==
    /\ pc = "failed"
    /\ Len(xlsx_files) = MaxFiles
    /\ k = 0
    /\ ret.info[1] = FileName(xlsx_files[1])
    /\ ~FileFails(xlsx_files, 2)

\* C26: what parse_all_years returns is the concatenation of what
\* parse_xlsx_file gives for each file of the directory, the files in the
\* order of their names and the records of a file in their order, nothing
\* dropped, merged or moved; it is determined by the directory.
C26_Concatenation ==
    pc = "returned" =>
        LET parsed(j) == parse_xlsx_file(xlsx_files[j]).val
            n         == Len(xlsx_files)
        IN  /\ {xlsx_files[j] : j \in 1..n} = FilesOf(arg)
            /\ n = Cardinality(FilesOf(arg))
            /\ InNameOrder(xlsx_files)
            /\ \A j \in 1..n : parse_xlsx_file(xlsx_files[j]).ok
            /\ ret = Ok(GameData(
                        Concat([j \in 1..n |-> parsed(j).statements]),
                        Concat([j \in 1..n |-> parsed(j).predictions]),
                        Concat([j \in 1..n |-> parsed(j).outcomes])))

\* two files with statements, predictions and outcomes have been
\* aggregated
C26_Witness ==
    /\ pc = "returned"
    /\ Len(xlsx_files) = MaxFiles
    /\ \A j \in 1..MaxFiles :
        /\ parse_xlsx_file(xlsx_files[j]).val.statements # <<>>
        /\ parse_xlsx_file(xlsx_files[j]).val.predictions # <<>>
        /\ parse_xlsx_file(xlsx_files[j]).val.outcomes # <<>>

\* the sheet extract_outcomes settles on
ChosenSheet(file, structure) ==
    IF structure = CURRENT THEN S_Statements
    ELSE IF /\ PrimaryName(file) = S_Main
            /\ ~PrimaryColumnHasValue(file)
            /\ InSeq(S_Summary, sheetnames(file))
    THEN S_Summary
    ELSE PrimaryName(file)

\* and its outcome column, which the sheet may not have
ChosenColumn(file, structure) ==
    IF structure = CURRENT
    THEN (IF O_OneFirst \in read_excel(file, S_Statements).columns
          THEN O_OneFirst ELSE O_Plain)
    ELSE IF ChosenSheet(file, structure) = S_Summary
    THEN SummaryOutcomeColumn(file)
    ELSE PrimaryOutcomeColumn(file)

IdColumn(structure) == IF structure = CURRENT THEN "Number" ELSE "ID"

\* the rows of the sheet whose id cell is the number of the statement's
\* local id; none when the sheet has no id column
RowsOfStatement(df, id_col, stmt) ==
    IF id_col \notin df.columns THEN {}
    ELSE {i \in 1..Len(df.rows) :
            /\ df.rows[i][id_col].t \in {"int", "float"}
            /\ ~IsNaN(df.rows[i][id_col])
            /\ df.rows[i][id_col].n = Scale * ParseInt(LocalId(stmt.id)).n}

\* what the claim gives the statement: unresolved without a row, else
\* parse_outcome of the cell of its first row
OutcomeOfRow(df, id_col, outcome_col, stmt) ==
    LET rows == RowsOfStatement(df, id_col, stmt)
    IN  IF rows = {} THEN Ok(OutUnresolved)
        ELSE IF outcome_col \notin df.columns THEN Err("KeyError")
        ELSE parse_outcome(iloc(df, Min(rows), outcome_col))

\* the outcome step gives each statement that outcome, or fails as the
\* first statement fails whose outcome is a failure
OutcomesAsLookedUp(file, structure, statements) ==
    LET df       == read_excel(file, ChosenSheet(file, structure))
        found(i) == OutcomeOfRow(df, IdColumn(structure),
                                 ChosenColumn(file, structure), statements[i])
        failed   == {i \in 1..Len(statements) : ~found(i).ok}
    IN  IF failed = {}
        THEN /\ pc' = "parsed"
             /\ ret'.val.outcomes =
                    [i \in 1..Len(statements) |->
                        [statement_id |-> statements[i].id,
                         outcome      |-> found(i).val,
                         date         |-> "None"]]
        ELSE /\ pc' = "raised"
             /\ ret'.err = found(Min(failed)).err

\* a row is found for a statement only in a sheet that has the outcome
\* column
FoundRowsHaveCells(file, structure, statements) ==
    LET df == read_excel(file, ChosenSheet(file, structure))
    IN  \/ ChosenColumn(file, structure) \in df.columns
        \/ \A i \in 1..Len(statements) :
                RowsOfStatement(df, IdColumn(structure), statements[i]) = {}

----------------------------------------------------------------------------
(* normalize_text_for_matching applied to a text and to its own result.      *)

MaxTextLen == 3

TextAlphabet == {"a", "B", " ", "\t", ".", "?"}

Texts == UNION {[1..n -> TextAlphabet] : n \in 0..MaxTextLen}

InitText ==
    /\ pc = "text"
    /\ arg \in Texts
    /\ ret = <<>>
    /\ AggregatorIdle

\* normalized = normalize_text_for_matching(text)
CallNormalizeText ==
    /\ pc = "text"
    /\ pc' = "key"
    /\ ret' = <<normalize_text_for_matching(arg)>>
    /\ UNCHANGED <<arg, aggVars>>

\* normalize_text_for_matching(normalized)
CallNormalizeTextAgain ==
    /\ pc = "key"
    /\ pc' = "rekeyed"
    /\ ret' = Append(ret, normalize_text_for_matching(ret[1]))
    /\ UNCHANGED <<arg, aggVars>>

NextText ==
    \/ CallNormalizeText
    \/ CallNormalizeTextAgain

SpecText == InitText /\ [][NextText]_vars

----------------------------------------------------------------------------
(* Claims about the text normalizer (checked under SpecText).               *)

\* no whitespace at either end, no upper-case letter, no two whitespace
\* characters in a row, no punctuation mark at the end
Canonical(s) ==
    /\ s = <<>> \/ (s[1] \notin Whitespace /\ s[Len(s)] \notin Whitespace)
    /\ \A i \in 1..Len(s) : s[i] \notin DOMAIN UpperToLower
    /\ \A i \in 1..Len(s) - 1 :
            ~(s[i] \in Whitespace /\ s[i + 1] \in Whitespace)
    /\ s = <<>> \/ s[Len(s)] \notin Punctuation

\* C29: normalize_text_for_matching is idempotent and its result is
\* canonical: normalizing the result again changes nothing, and the result
\* has no whitespace at its ends, no upper-case letter, no run of two or
\* more whitespace characters and no trailing character of .!?,;:
C29_CanonicalKey ==
    /\ pc \in {"key", "rekeyed"} => Canonical(ret[1])
    /\ pc = "rekeyed" => ret[2] = ret[1]

----------------------------------------------------------------------------
(* Claims about the text lookup of the current era (checked under SpecFile). *)

\* the statements whose normalized text is that of the row
SameText(df, r, statements) ==
    {j \in 1..Len(statements) : Answers(df, CURRENT, r, statements[j])}

\* the rows kept of the sheets that count whose text is the text of a
\* statement, the last statement of that text having the id
RowsOfLastWithText(file, statements, id) ==
    {sr \in UNION {{<<s, r>> : r \in KeptRows(file.sheets[s], CURRENT)} :
                        s \in CountedSheets(file, CURRENT)} :
        LET same == SameText(file.sheets[sr[1]], sr[2], statements)
        IN  same # {} /\ statements[Max(same)].id = id}

PredictionsOf(predictions, id) ==
    {i \in 1..Len(predictions) : predictions[i].statement_id = id}

\* a later statement has the same normalized text
Overwritten(statements, i) ==
    \E j \in i + 1..Len(statements) :
        normalize_text_for_matching(statements[j].text)
            = normalize_text_for_matching(statements[i].text)

\* C30: the predictions extracted from a current file are attributed, row
\* by row, to the last statement whose normalized text is the row's: each
\* statement id has as many predictions as there are kept rows whose text
\* is last carried by a statement of that id, so a statement whose text a
\* later statement of another id repeats has none, and with distinct texts
\* each row goes to the one statement of its text.
C30_LastStatementWins ==
    [][(/\ pc = "statements"
        /\ locals.structure = CURRENT
        /\ pc' = "predictions")
          => /\ \A j \in 1..Len(locals.statements) :
                   Cardinality(PredictionsOf(locals'.predictions,
                                             locals.statements[j].id))
                     = Cardinality(RowsOfLastWithText(locals.filepath,
                            locals.statements, locals.statements[j].id))
             /\ \A i \in 1..Len(locals'.predictions) :
                   \E j \in 1..Len(locals.statements) :
                      /\ locals'.predictions[i].statement_id
                            = locals.statements[j].id
                      /\ ~Overwritten(locals.statements, j)]_vars

\* two statements of one normalized text and two ids, and a row of that
\* text: its prediction carries the second id, none the first
C30_Witness ==
    /\ pc = "predictions"
    /\ locals.structure = CURRENT
    /\ Len(locals.statements) = 2
    /\ locals.statements[1].id # locals.statements[2].id
    /\ Overwritten(locals.statements, 1)
    /\ PredictionsOf(locals.predictions, locals.statements[2].id) # {}
    /\ PredictionsOf(locals.predictions, locals.statements[1].id) = {}

====
